---- MODULE Spec2Model ----
(***************************************************************************)
(* DeckTune / gymdeck3: the closed-loop actuation pipeline.                *)
(*                                                                         *)
(*   fan loop      src/gymdeck3/src/fan/{controller,safety,smoother,hwmon} *)
(*   actuator      src/DeckTune/gymdeck3/src/ryzenadj.rs                   *)
(*   supervisor    src/gymdeck3/src/watchdog.rs, src/gymdeck3/src/signals  *)
(*                                                                         *)
(* Every object of the program is one variable holding a record whose      *)
(* fields carry the names of the struct's fields.  An Option<T> is the     *)
(* empty sequence (None) or a one-element sequence (Some(v)).              *)
(***************************************************************************)
EXTENDS Integers, Sequences, FiniteSets, TLC

VARIABLES
    fc,     \* FanController (controller.rs:218-235), with its PWMSmoother
    dev,    \* the hwmon sysfs files behind HwmonDevice (hwmon.rs:84-91)
    upd,    \* what the most recent FanController call did (observation)
    ticks,  \* number of FanController::update calls made so far
    guard,  \* one evaluation of the safety guard as a pure function
    ex,     \* RyzenadjExecutor (ryzenadj.rs:59-66)
    exlog,  \* the executor's calls so far: the last call and its result,
            \* the success/failure outcome of every apply, the number of
            \* calls and of external commands spawned (observation)
    now,    \* wall clock: ms elapsed since WatchdogState::new (start_time)
    wd,     \* WatchdogState / Watchdog and the position of its task
    sig,    \* SignalState (signals.rs:15-20)
    loop,   \* the control loop task: its position
    proc,   \* the process: its exit code once it has exited, and the
            \* hardware resets, panic propagations and exits in order
    hy,     \* HysteresisController, with its last call and what the call
            \* was given and returned (observation)
    ip,     \* Interpolator, with its last call (observation)
    lim,    \* an Interpolator and a PWMSmoother side by side, with the last
            \* call made on each (observation)
    strat,  \* one evaluation of an adaptation strategy as a pure function
    crv,    \* one construction and evaluation of a decision curve
    volt    \* VoltageController (voltage_controller.rs:183-190), the
            \* voltage_offset files it writes and its most recent call

vars == <<fc, dev, upd, ticks, guard, ex, exlog, now, wd, sig, loop, proc,
          hy, ip, lim, strat, crv, volt>>
calcVars == <<lim, strat, crv, volt>>
hystVars == <<hy>>
interpVars == <<ip>>
daemonVars == <<now, wd, sig, loop, proc>>
fanVars == <<fc, dev, upd, ticks>>
guardVars == <<guard>>
execVars == <<ex, exlog>>

(***************************************************************************)
(* Generic helpers                                                         *)
(***************************************************************************)
None == <<>>
Some(v) == <<v>>
IsSome(o) == Len(o) = 1
Unwrap(o) == o[1]

Abs(x) == IF x < 0 THEN -x ELSE x
Min(a, b) == IF a <= b THEN a ELSE b
Max(a, b) == IF a >= b THEN a ELSE b
Clamp(x, lo, hi) == IF x < lo THEN lo ELSE IF x > hi THEN hi ELSE x

\* Rust integer division truncates toward zero (TLA+ \div floors).
TruncDiv(a, b) == IF (a >= 0) = (b > 0) \/ a = 0
                  THEN Abs(a) \div Abs(b)
                  ELSE -(Abs(a) \div Abs(b))

RECURSIVE SeqSum(_)
SeqSum(s) == IF s = <<>> THEN 0 ELSE Head(s) + SeqSum(Tail(s))

(***************************************************************************)
(* fan/safety.rs                                                           *)
(***************************************************************************)
CRITICAL_TEMP_C == 90
HIGH_TEMP_C == 85
ZERO_RPM_MAX_TEMP_C == 45

\* impl Default for FanSafetyLimits
DefaultFanSafetyLimits ==
    [critical_temp |-> CRITICAL_TEMP_C, high_temp |-> HIGH_TEMP_C,
     zero_rpm_max_temp |-> ZERO_RPM_MAX_TEMP_C, allow_zero_rpm |-> FALSE]

\* enum SafetyOverride { None, ForcePwm(u8), MinimumPwm(u8) }
OverrideNone == [kind |-> "None", pwm |-> 0]
ForcePwm(p) == [kind |-> "ForcePwm", pwm |-> p]
MinimumPwm(p) == [kind |-> "MinimumPwm", pwm |-> p]

\* variant: the critical tier starts strictly above the threshold
check_safety_override_strict(temp_c, limits) ==
    IF temp_c > limits.critical_temp THEN ForcePwm(255)
    ELSE IF temp_c >= limits.high_temp THEN MinimumPwm(204)
    ELSE OverrideNone

check_safety_override(temp_c, limits) ==
    IF temp_c >= limits.critical_temp THEN ForcePwm(255)
    ELSE IF temp_c >= limits.high_temp THEN MinimumPwm(204)
    ELSE OverrideNone

\* variant: the flag alone decides, the temperature is not consulted
is_zero_rpm_safe_flag_only(temp_c, limits) ==
    limits.allow_zero_rpm

is_zero_rpm_safe(temp_c, limits) ==
    limits.allow_zero_rpm /\ temp_c <= limits.zero_rpm_max_temp

\* variant: the minimum tier replaces the value instead of raising it
apply_safety_override_replace(calculated_pwm, temp_c, limits) ==
    LET o == check_safety_override(temp_c, limits) IN
    CASE o.kind = "ForcePwm" -> o.pwm
      [] o.kind = "MinimumPwm" -> o.pwm
      [] OTHER ->
            IF calculated_pwm = 0 /\ ~is_zero_rpm_safe(temp_c, limits)
            THEN 30
            ELSE calculated_pwm

apply_safety_override(calculated_pwm, temp_c, limits) ==
    LET o == check_safety_override(temp_c, limits) IN
    CASE o.kind = "ForcePwm" -> o.pwm
      [] o.kind = "MinimumPwm" -> Max(calculated_pwm, o.pwm)
      [] OTHER ->
            IF calculated_pwm = 0 /\ ~is_zero_rpm_safe(temp_c, limits)
            THEN 30
            ELSE calculated_pwm

(***************************************************************************)
(* fan/controller.rs: FanCurve                                             *)
(***************************************************************************)
FanCurvePoint(t, s) == [temp_c |-> t, speed_percent |-> Min(s, 100)]

\* impl Default for FanCurve
DefaultFanCurve ==
    << FanCurvePoint(40, 20), FanCurvePoint(50, 30), FanCurvePoint(60, 45),
       FanCurvePoint(70, 60), FanCurvePoint(80, 80), FanCurvePoint(85, 100) >>

\* variant: the scaled offset is not added to the first point's speed
interpolate_unanchored(temp_c, p1, p2) ==
    LET temp_range == p2.temp_c - p1.temp_c
        speed_range == p2.speed_percent - p1.speed_percent
        temp_offset == temp_c - p1.temp_c
    IN  IF temp_range = 0 THEN p1.speed_percent
        ELSE Clamp(TruncDiv(speed_range * temp_offset, temp_range), 0, 100)

\* FanCurve::interpolate
interpolate(temp_c, p1, p2) ==
    LET temp_range == p2.temp_c - p1.temp_c
        speed_range == p2.speed_percent - p1.speed_percent
        temp_offset == temp_c - p1.temp_c
    IN  IF temp_range = 0 THEN p1.speed_percent
        ELSE Clamp(p1.speed_percent
                     + TruncDiv(speed_range * temp_offset, temp_range),
                   0, 100)

\* the `for i in 0..len-1` scan of calculate_speed, from segment i on
RECURSIVE ScanSegments(_, _, _)
ScanSegments(points, temp_c, i) ==
    IF i >= Len(points) THEN 50
    ELSE IF temp_c >= points[i].temp_c /\ temp_c <= points[i + 1].temp_c
         THEN interpolate(temp_c, points[i], points[i + 1])
         ELSE ScanSegments(points, temp_c, i + 1)

\* variant: only the lowest point itself is answered with its own speed
calculate_speed_fallback(points, temp_c) ==
    IF points = <<>> THEN 50
    ELSE IF temp_c = points[1].temp_c THEN points[1].speed_percent
    ELSE IF temp_c >= points[Len(points)].temp_c
         THEN points[Len(points)].speed_percent
    ELSE ScanSegments(points, temp_c, 1)

calculate_speed(points, temp_c) ==
    IF points = <<>> THEN 50
    ELSE IF temp_c <= points[1].temp_c THEN points[1].speed_percent
    ELSE IF temp_c >= points[Len(points)].temp_c
         THEN points[Len(points)].speed_percent
    ELSE ScanSegments(points, temp_c, 1)

speed_to_pwm(speed_percent) == (Min(speed_percent, 100) * 255) \div 100

(***************************************************************************)
(* fan/smoother.rs: PWMSmoother                                            *)
(*                                                                         *)
(* current_pwm is an f32; it is kept here in fixed point, UnitsPerPwm      *)
(* units to one PWM step, and elapsed wall time is counted in tenths of a  *)
(* second, so that the default rates (127.5 and 63.75 PWM/s) are whole     *)
(* numbers of units per time step.  An elapsed time of 0 stands for a gap  *)
(* below the clock's resolution (two calls back to back).                  *)
(***************************************************************************)
UnitsPerPwm == 8
DEFAULT_RAMP_TIME_DS == 20

\* f32::round (half away from zero) of a non-negative value, then `as u8`
RoundPwm(u) == Clamp((2 * u + UnitsPerPwm) \div (2 * UnitsPerPwm), 0, 255)

PWMSmoother_new(ramp_time_ds) ==
    LET ramp_time == Max(ramp_time_ds, 1)
        rate == (255 * UnitsPerPwm) \div ramp_time
    IN  [current_pwm |-> 0, target_pwm |-> 0,
         ramp_rate_increase |-> rate, ramp_rate_decrease |-> rate \div 2]

set_target(s, target) == [s EXCEPT !.target_pwm = target]

\* PWMSmoother::update; elapsed = last_update.elapsed(), in 0.1 s.
\* Yields the new smoother and the returned PWM.
smoother_update(s, elapsed) ==
    LET diff == s.target_pwm * UnitsPerPwm - s.current_pwm
        rate == IF diff > 0 THEN s.ramp_rate_increase
                            ELSE s.ramp_rate_decrease
        max_change == rate * elapsed
        change == Clamp(diff, -max_change, max_change)
        cur == IF 2 * Abs(diff) < UnitsPerPwm
               THEN s.target_pwm * UnitsPerPwm
               ELSE Clamp(s.current_pwm + change, 0, 255 * UnitsPerPwm)
    IN  [s |-> [s EXCEPT !.current_pwm = cur], out |-> RoundPwm(cur)]

\* PWMSmoother::at_target
at_target(s) == 2 * Abs(s.current_pwm - s.target_pwm * UnitsPerPwm) < UnitsPerPwm

\* variant: the value is only made the target, to be ramped to
force_immediate_as_target(s, pwm) == [s EXCEPT !.target_pwm = pwm]

force_immediate(s, pwm) ==
    [s EXCEPT !.current_pwm = pwm * UnitsPerPwm, !.target_pwm = pwm]

smoother_reset(s) == [s EXCEPT !.current_pwm = 0, !.target_pwm = 0]

(***************************************************************************)
(* fan/controller.rs: FanController                                        *)
(***************************************************************************)
DEFAULT_HYSTERESIS_TEMP == 2
FAN_MODE_AUTO == 2
FAN_MODE_MANUAL == 1

Ok(v) == [ok |-> TRUE, val |-> v]
Err == [ok |-> FALSE, val |-> 0]

\* FanController::apply_hysteresis: the new last_stable_temp and the
\* effective temperature
apply_hysteresis(last_stable_temp, hysteresis_temp, temp) ==
    IF IsSome(last_stable_temp)
    THEN LET last == Unwrap(last_stable_temp)
             diff == Abs(temp - last)
         IN  IF diff >= hysteresis_temp
             THEN [stable |-> Some(temp), temp |-> temp]
             ELSE [stable |-> last_stable_temp, temp |-> last]
    ELSE [stable |-> Some(temp), temp |-> temp]

\* push_back then pop_front while longer than smoothing_samples
RECURSIVE TrimFront(_, _)
TrimFront(h, n) == IF Len(h) > n THEN TrimFront(Tail(h), n) ELSE h

NoCall == [op |-> "none", raw |-> None, target_pwm |-> 0, safe_pwm |-> 0,
           final_pwm |-> 0, write |-> None, ret |-> Ok(0)]

\* variant: the safety tier is taken from the averaged and held temperature
update_active_smoothed_guard(self, d, raw_temp, elapsed, wr_ok) ==
    LET cfg == self.config
        history == TrimFront(Append(self.temp_history, raw_temp),
                             cfg.smoothing_samples)
        smoothed_temp == IF history = <<>> THEN raw_temp
                         ELSE TruncDiv(SeqSum(history), Len(history))
        hyst == apply_hysteresis(self.last_stable_temp, cfg.hysteresis_temp,
                                 smoothed_temp)
        target_speed == calculate_speed(self.curve, hyst.temp)
        target_pwm == speed_to_pwm(target_speed)
        safe_pwm == apply_safety_override(target_pwm, hyst.temp,
                                          cfg.safety_limits)
        is_critical ==
            check_safety_override(hyst.temp, cfg.safety_limits).kind = "ForcePwm"
        sm == IF cfg.pwm_smoothing_enabled /\ ~is_critical
              THEN smoother_update(set_target(self.pwm_smoother, safe_pwm),
                                   elapsed)
              ELSE IF is_critical
              THEN [s |-> force_immediate(self.pwm_smoother, safe_pwm),
                    out |-> safe_pwm]
              ELSE [s |-> self.pwm_smoother, out |-> safe_pwm]
        final_pwm == sm.out
        pwm_diff == Abs(final_pwm - self.last_pwm)
        writes == pwm_diff >= cfg.min_pwm_change
                    \/ final_pwm = 0 \/ final_pwm = 255
        self1 == [self EXCEPT !.temp_history = history,
                              !.last_stable_temp = hyst.stable,
                              !.pwm_smoother = sm.s]
        self2 == IF writes /\ wr_ok
                 THEN [self1 EXCEPT !.last_pwm = final_pwm] ELSE self1
    IN  [fc  |-> self2,
         dev |-> IF writes /\ wr_ok
                 THEN [d EXCEPT !.pwm1 = final_pwm,
                                !.written = Some(final_pwm)]
                 ELSE d,
         upd |-> [op |-> "update", raw |-> Some(raw_temp),
                  target_pwm |-> target_pwm, safe_pwm |-> safe_pwm,
                  final_pwm |-> final_pwm,
                  write |-> IF writes THEN Some(final_pwm) ELSE None,
                  ret |-> IF writes /\ ~wr_ok THEN Err
                          ELSE Ok(self2.last_pwm)]]

\* FanController::update on an active controller whose temperature read
\* returned raw_temp; elapsed is the smoother's wall-clock delta and wr_ok
\* whether the sysfs write of pwm1 succeeds.
update_active(self, d, raw_temp, elapsed, wr_ok) ==
    LET cfg == self.config
        history == TrimFront(Append(self.temp_history, raw_temp),
                             cfg.smoothing_samples)
        smoothed_temp == IF history = <<>> THEN raw_temp
                         ELSE TruncDiv(SeqSum(history), Len(history))
        hyst == apply_hysteresis(self.last_stable_temp, cfg.hysteresis_temp,
                                 smoothed_temp)
        target_speed == calculate_speed(self.curve, hyst.temp)
        target_pwm == speed_to_pwm(target_speed)
        safe_pwm == apply_safety_override(target_pwm, raw_temp,
                                          cfg.safety_limits)
        is_critical ==
            check_safety_override(raw_temp, cfg.safety_limits).kind = "ForcePwm"
        sm == IF cfg.pwm_smoothing_enabled /\ ~is_critical
              THEN smoother_update(set_target(self.pwm_smoother, safe_pwm),
                                   elapsed)
              ELSE IF is_critical
              THEN [s |-> force_immediate(self.pwm_smoother, safe_pwm),
                    out |-> safe_pwm]
              ELSE [s |-> self.pwm_smoother, out |-> safe_pwm]
        final_pwm == sm.out
        pwm_diff == Abs(final_pwm - self.last_pwm)
        writes == pwm_diff >= cfg.min_pwm_change
                    \/ final_pwm = 0 \/ final_pwm = 255
        self1 == [self EXCEPT !.temp_history = history,
                              !.last_stable_temp = hyst.stable,
                              !.pwm_smoother = sm.s]
        self2 == IF writes /\ wr_ok
                 THEN [self1 EXCEPT !.last_pwm = final_pwm] ELSE self1
    IN  [fc  |-> self2,
         dev |-> IF writes /\ wr_ok
                 THEN [d EXCEPT !.pwm1 = final_pwm,
                                !.written = Some(final_pwm)]
                 ELSE d,
         upd |-> [op |-> "update", raw |-> Some(raw_temp),
                  target_pwm |-> target_pwm, safe_pwm |-> safe_pwm,
                  final_pwm |-> final_pwm,
                  write |-> IF writes THEN Some(final_pwm) ELSE None,
                  ret |-> IF writes /\ ~wr_ok THEN Err
                          ELSE Ok(self2.last_pwm)]]

\* variant: a read failure is noticed only after the sample was recorded
update_push_first(self, d, rd, elapsed, wr_ok) ==
    IF ~self.active
    THEN [fc |-> self, dev |-> d,
          upd |-> [NoCall EXCEPT !.op = "update", !.ret = Ok(self.last_pwm)]]
    ELSE IF ~IsSome(rd)
    THEN [fc |-> [self EXCEPT !.temp_history = Append(@, 0)], dev |-> d,
          upd |-> [NoCall EXCEPT !.op = "update", !.ret = Err]]
    ELSE update_active(self, d, Unwrap(rd), elapsed, wr_ok)

\* FanController::update
update(self, d, rd, elapsed, wr_ok) ==
    IF ~self.active
    THEN [fc |-> self, dev |-> d,
          upd |-> [NoCall EXCEPT !.op = "update", !.ret = Ok(self.last_pwm)]]
    ELSE IF ~IsSome(rd)
    THEN [fc |-> self, dev |-> d,
          upd |-> [NoCall EXCEPT !.op = "update", !.ret = Err]]
    ELSE update_active(self, d, Unwrap(rd), elapsed, wr_ok)

\* FanController::with_device, then set_curve and set_config
with_device(curve, config) ==
    [curve |-> curve, config |-> config, temp_history |-> <<>>,
     last_stable_temp |-> None, last_pwm |-> 0, active |-> FALSE,
     pwm_smoother |-> PWMSmoother_new(DEFAULT_RAMP_TIME_DS)]

(***************************************************************************)
(* ryzenadj.rs: RyzenadjExecutor                                           *)
(***************************************************************************)
MAX_CONSECUTIVE_FAILURES == 5

\* what running the external command can come to (execute_command)
SpawnOutcomes == {"Ok", "BinaryNotFound", "ExecutionFailed", "NonZeroExit"}

\* Result<(), RyzenadjError> of execute_command: the outcome itself
execute_command(outcome) == outcome

\* results of apply and reset_to_zero:
\*   Ok(ApplyResult {success, consecutive_failures}), Ok(()) or
\*   Err(kind) with the count MaxFailuresReached carries
ApplyOk(success, n) == [kind |-> "Ok", success |-> success, count |-> n]
RyzenadjErr(kind, n) == [kind |-> kind, success |-> FALSE, count |-> n]

RyzenadjExecutor_with_max_failures(max_failures) ==
    [consecutive_failures |-> 0, max_failures |-> max_failures]

RyzenadjExecutor_new == RyzenadjExecutor_with_max_failures(MAX_CONSECUTIVE_FAILURES)

\* variant: the limit is only hit when the counter exceeds it
record_failure_late(self) ==
    LET n == self.consecutive_failures + 1 IN
    [self |-> [self EXCEPT !.consecutive_failures = n],
     ret  |-> IF n > self.max_failures
              THEN RyzenadjErr("MaxFailuresReached", n)
              ELSE ApplyOk(FALSE, n)]

\* record_failure: the updated executor and Ok(count) / Err(MaxFailuresReached)
record_failure(self) ==
    LET n == self.consecutive_failures + 1 IN
    [self |-> [self EXCEPT !.consecutive_failures = n],
     ret  |-> IF n >= self.max_failures
              THEN RyzenadjErr("MaxFailuresReached", n)
              ELSE ApplyOk(FALSE, n)]

\* variant: a success leaves the counter alone
record_success_keep(self) == self

record_success(self) == [self EXCEPT !.consecutive_failures = 0]

\* RyzenadjExecutor::apply, given what execute_command came to
apply(self, outcome) ==
    IF execute_command(outcome) = "Ok"
    THEN [self |-> record_success(self), ret |-> ApplyOk(TRUE, 0)]
    ELSE record_failure(self)

\* variant: the reset goes through the failure accounting of apply
reset_to_zero_counted(self, outcome) ==
    IF execute_command(outcome) = "Ok"
    THEN [self |-> self, ret |-> ApplyOk(TRUE, 0)]
    ELSE record_failure(self)

\* RyzenadjExecutor::reset_to_zero: the result of execute_command, as is
reset_to_zero(self, outcome) ==
    [self |-> self,
     ret  |-> IF execute_command(outcome) = "Ok" THEN ApplyOk(TRUE, 0)
              ELSE RyzenadjErr(execute_command(outcome), 0)]

(***************************************************************************)
(* watchdog.rs: WatchdogState                                              *)
(***************************************************************************)
CHECK_INTERVAL_MS == 1000
EXIT_WATCHDOG == 5

\* u64::saturating_sub
saturating_sub(a, b) == IF a >= b THEN a - b ELSE 0

\* WatchdogState::heartbeat at wall-clock time t
heartbeat(w, t) == [w EXCEPT !.last_heartbeat_ms = t]

\* variant: the operands of the subtraction are swapped
time_since_heartbeat_ms_swapped(w, t) == saturating_sub(w.last_heartbeat_ms, t)

time_since_heartbeat_ms(w, t) == saturating_sub(t, w.last_heartbeat_ms)

\* variant: an elapsed time equal to the timeout already counts
is_timed_out_inclusive(w, t, timeout_ms) == time_since_heartbeat_ms(w, t) >= timeout_ms

is_timed_out(w, t, timeout_ms) == time_since_heartbeat_ms(w, t) > timeout_ms

\* check_timeout: the same test on plain numbers
check_timeout(last_heartbeat_ms, current_time_ms, timeout_ms) ==
    saturating_sub(current_time_ms, last_heartbeat_ms) > timeout_ms

(***************************************************************************)
(* The fan loop as a state machine                                         *)
(***************************************************************************)
MaxSamples == 2
MaxTicks == 3

\* temperatures the sensor may report: below the zero-RPM limit, above it,
\* on the high threshold and on the critical one
Temps == {40, 50, 85, 90}

\* wall-clock gaps between two smoother updates, in 0.1 s
ElapsedChoices == {0, 5}

\* a user curve that asks for 0 % up to 50 C and stays low when hot
QuietCurve == << FanCurvePoint(50, 0), FanCurvePoint(95, 40) >>
FanCurves == {DefaultFanCurve, QuietCurve}

FanConfigs ==
    [hysteresis_temp : {DEFAULT_HYSTERESIS_TEMP},
     smoothing_samples : 1..MaxSamples,
     safety_limits : {[DefaultFanSafetyLimits EXCEPT !.allow_zero_rpm = z] :
                        z \in BOOLEAN},
     min_pwm_change : {0, 3},
     pwm_smoothing_enabled : BOOLEAN]

FanIdle == fc = <<>> /\ dev = <<>> /\ upd = NoCall /\ ticks = 0

FanInit ==
    /\ fc \in {with_device(c, cfg) : c \in FanCurves, cfg \in FanConfigs}
    /\ dev = [pwm1 |-> 0, pwm1_enable |-> FAN_MODE_AUTO,
              took_control |-> FALSE, written |-> None]
    /\ upd = NoCall
    /\ ticks = 0

\* HwmonDevice::set_mode.  written records the last value set_pwm stored
\* since manual control was taken; handing control back to the BIOS
\* forgets it.
set_mode(d, mode) ==
    [d EXCEPT !.pwm1_enable = mode,
              !.took_control = IF mode = FAN_MODE_MANUAL THEN TRUE ELSE @,
              !.written = IF mode = FAN_MODE_AUTO THEN None ELSE @]

\* FanController::enable
FanEnable ==
    \E wr_ok \in BOOLEAN :
        /\ dev' = IF wr_ok THEN set_mode(dev, FAN_MODE_MANUAL) ELSE dev
        /\ fc' = IF wr_ok THEN [fc EXCEPT !.active = TRUE] ELSE fc
        /\ upd' = [NoCall EXCEPT !.op = "enable",
                                 !.ret = IF wr_ok THEN Ok(0) ELSE Err]
        /\ UNCHANGED <<calcVars, ticks, guardVars, hystVars, interpVars, execVars, daemonVars>>

\* FanController::disable
FanDisable ==
    \E wr_ok \in BOOLEAN :
        /\ dev' = IF wr_ok THEN set_mode(dev, FAN_MODE_AUTO) ELSE dev
        /\ fc' = IF wr_ok
                 THEN [fc EXCEPT !.active = FALSE,
                                 !.temp_history = <<>>,
                                 !.last_stable_temp = None,
                                 !.pwm_smoother = smoother_reset(@)]
                 ELSE fc
        /\ upd' = [NoCall EXCEPT !.op = "disable",
                                 !.ret = IF wr_ok THEN Ok(0) ELSE Err]
        /\ UNCHANGED <<calcVars, ticks, guardVars, hystVars, interpVars, execVars, daemonVars>>

\* FanController::update, one tick of the fan loop
FanUpdate ==
    /\ ticks < MaxTicks
    /\ ticks' = ticks + 1
    /\ \E rd \in {None} \cup {Some(t) : t \in Temps},
       elapsed \in ElapsedChoices, wr_ok \in BOOLEAN :
        LET r == update(fc, dev, rd, elapsed, wr_ok) IN
            /\ fc' = r.fc
            /\ dev' = r.dev
            /\ upd' = r.upd
    /\ UNCHANGED <<calcVars, guardVars, hystVars, interpVars, execVars, daemonVars>>

FanNext == FanEnable \/ FanDisable \/ FanUpdate

(***************************************************************************)
(* The safety guard as a pure function: Init draws the arguments, the one  *)
(* action applies apply_safety_override to them.                           *)
(***************************************************************************)
GuardTemps == {-5, 0, 44, 45, 46, 84, 85, 86, 89, 90, 91, 120}

\* the default limits, with_zero_rpm, with_critical_temp(80) (raised to 85),
\* and hand-built limits with the thresholds in unusual order
GuardLimits ==
    { DefaultFanSafetyLimits,
      [DefaultFanSafetyLimits EXCEPT !.allow_zero_rpm = TRUE],
      [DefaultFanSafetyLimits EXCEPT !.critical_temp = Max(80, 85)],
      [DefaultFanSafetyLimits EXCEPT !.critical_temp = 80, !.high_temp = 86],
      [DefaultFanSafetyLimits EXCEPT !.allow_zero_rpm = TRUE,
                                     !.zero_rpm_max_temp = 90] }

GuardIdle == guard = [calculated_pwm |-> 0, temp_c |-> 0,
                      limits |-> DefaultFanSafetyLimits, out |-> None]

GuardInit ==
    guard \in [calculated_pwm : 0..255, temp_c : GuardTemps,
               limits : GuardLimits, out : {None}]

GuardApply ==
    /\ guard.out = None
    /\ guard' = [guard EXCEPT !.out =
                    Some(apply_safety_override(guard.calculated_pwm,
                                               guard.temp_c, guard.limits))]
    /\ UNCHANGED <<calcVars, fanVars, execVars, daemonVars, hystVars, interpVars>>

(***************************************************************************)
(* The executor as a state machine: any sequence of apply and              *)
(* reset_to_zero calls, each with any outcome of the external command.     *)
(***************************************************************************)
MaxCalls == 7

NoExecCall == [op |-> "none", outcome |-> "Ok", ret |-> ApplyOk(TRUE, 0),
               history |-> <<>>, calls |-> 0, spawned |-> 0,
               had_fatal |-> FALSE]

ExecIdle == ex = RyzenadjExecutor_new /\ exlog = NoExecCall

ExecInit ==
    /\ ex \in {RyzenadjExecutor_with_max_failures(n) :
                 n \in 1..MAX_CONSECUTIVE_FAILURES}
    /\ exlog = NoExecCall

ExecApply ==
    /\ exlog.calls < MaxCalls
    /\ \E outcome \in SpawnOutcomes :
        LET r == apply(ex, outcome) IN
            /\ ex' = r.self
            /\ exlog' = [op |-> "apply", outcome |-> outcome, ret |-> r.ret,
                         history |-> Append(exlog.history, outcome = "Ok"),
                         calls |-> exlog.calls + 1,
                         spawned |-> exlog.spawned + 1,
                         had_fatal |-> exlog.had_fatal \/ r.ret.kind # "Ok"]
    /\ UNCHANGED <<calcVars, fanVars, guardVars, hystVars, interpVars, daemonVars>>

ExecResetToZero ==
    /\ exlog.calls < MaxCalls
    /\ \E outcome \in SpawnOutcomes :
        LET r == reset_to_zero(ex, outcome) IN
            /\ ex' = r.self
            /\ exlog' = [exlog EXCEPT !.op = "reset_to_zero",
                                      !.outcome = outcome, !.ret = r.ret,
                                      !.calls = @ + 1, !.spawned = @ + 1]
    /\ UNCHANGED <<calcVars, fanVars, guardVars, hystVars, interpVars, daemonVars>>

ExecNext == ExecApply \/ ExecResetToZero

(***************************************************************************)
(* The daemon's tasks as a state machine: the control loop, the SIGTERM    *)
(* listener, the watchdog task and the panic hook, over a wall clock that  *)
(* advances in steps of ClockStepMs.                                       *)
(***************************************************************************)
MaxNow == 5000
\* the latest moment at which the watchdog is started
MaxStartAt == 500
ClockStepMs == 500

\* Watchdog::new(timeout_secs, ..): the timeouts tried
WatchdogTimeouts == {1, 2}

Event(ev, by, code) == [ev |-> ev, by |-> by, code |-> code]
Alive == proc.exit_code = None
\* the last moment at which a heartbeat may be recorded so that the clock
\* can still run past timeout and one more poll
Horizon == MaxNow - wd.timeout_secs * 1000 - CHECK_INTERVAL_MS

DaemonIdle ==
    /\ now = 0
    /\ wd = <<>>
    /\ sig = <<>>
    /\ loop = <<>>
    /\ proc = <<>>

DaemonInit ==
    /\ now = 0
    /\ wd \in {[last_heartbeat_ms |-> 0, timeout_secs |-> t,
                started |-> FALSE, started_at |-> 0, pc |-> "idle",
                wake_at |-> 0, current_ms |-> 0,
                timeout_tx |-> FALSE] : t \in WatchdogTimeouts}
    /\ sig = [shutdown_requested |-> FALSE]
    /\ loop = [pc |-> "check"]
    /\ proc = [exit_code |-> None, events |-> <<>>]
    /\ ex = RyzenadjExecutor_new
    /\ exlog = NoExecCall

\* the wall clock.  While the watchdog is between reading the clock and
\* its test, the clock stops early enough for the next sleep to end within
\* MaxNow.
ClockTick ==
    /\ Alive
    /\ now + ClockStepMs <= MaxNow
    /\ wd.pc = "test" => now + ClockStepMs + CHECK_INTERVAL_MS <= MaxNow
    /\ now' = now + ClockStepMs
    /\ UNCHANGED <<calcVars, fanVars, guardVars, hystVars, interpVars, execVars, wd, sig, loop, proc>>

\* the SIGTERM / SIGINT listener tasks of SignalHandler::start
SignalShutdown ==
    /\ Alive
    /\ ~sig.shutdown_requested
    /\ sig' = [sig EXCEPT !.shutdown_requested = TRUE]
    /\ UNCHANGED <<calcVars, fanVars, guardVars, hystVars, interpVars, execVars, now, wd, loop, proc>>

\* variant: the task is spawned without the initial heartbeat
WatchdogStart_no_heartbeat ==
    /\ Alive
    /\ ~wd.started
    /\ now <= Horizon /\ now <= MaxStartAt
    /\ wd' = [wd EXCEPT !.started = TRUE, !.pc = "sleep",
                        !.started_at = now,
                        !.wake_at = now + CHECK_INTERVAL_MS]
    /\ UNCHANGED <<calcVars, fanVars, guardVars, hystVars, interpVars, execVars, now, sig, loop, proc>>

\* Watchdog::start: the initial heartbeat, then the task is spawned and
\* goes to sleep for the check interval.  started_at records when.
WatchdogStart ==
    /\ Alive
    /\ ~wd.started
    /\ now <= Horizon /\ now <= MaxStartAt
    /\ wd' = [heartbeat(wd, now) EXCEPT !.started = TRUE, !.pc = "sleep",
                                        !.started_at = now,
                                        !.wake_at = now + CHECK_INTERVAL_MS]
    /\ UNCHANGED <<calcVars, fanVars, guardVars, hystVars, interpVars, execVars, now, sig, loop, proc>>

\* the watchdog task wakes from sleep(check_interval) and, in
\* time_since_heartbeat_ms, reads the clock; the heartbeat is loaded in a
\* later step, so heartbeats and clock ticks may come in between
WatchdogWake ==
    /\ Alive
    /\ wd.pc = "sleep"
    /\ now >= wd.wake_at
    /\ wd' = [wd EXCEPT !.pc = "test", !.current_ms = now]
    /\ UNCHANGED <<calcVars, fanVars, guardVars, hystVars, interpVars, execVars, now, sig, loop, proc>>

\* the rest of is_timed_out: the load of last_heartbeat_ms, the saturating
\* subtraction from the clock value read before, and the comparison; then
\* the reset branch or the next sleep
WatchdogPoll ==
    /\ Alive
    /\ wd.pc = "test"
    /\ wd' = IF is_timed_out(wd, wd.current_ms, wd.timeout_secs * 1000)
             THEN [wd EXCEPT !.pc = "reset", !.current_ms = 0]
             ELSE [wd EXCEPT !.pc = "sleep",
                             !.wake_at = now + CHECK_INTERVAL_MS]
    /\ UNCHANGED <<calcVars, fanVars, guardVars, hystVars, interpVars, execVars, now, sig, loop, proc>>

\* variant: the timed-out branch goes on without calling reset_values_sync
WatchdogReset_skipped ==
    /\ Alive
    /\ wd.pc = "reset"
    /\ wd' = [wd EXCEPT !.pc = "signal"]
    /\ UNCHANGED <<calcVars, fanVars, guardVars, hystVars, interpVars, execVars, now, sig, loop, proc>>

\* reset_values_sync: one blocking run of the external command, whose
\* result is only logged
WatchdogReset ==
    /\ Alive
    /\ wd.pc = "reset"
    /\ \E outcome \in SpawnOutcomes :
        proc' = [proc EXCEPT !.events =
                    Append(@, Event("reset", "watchdog", 0))]
    /\ wd' = [wd EXCEPT !.pc = "signal"]
    /\ UNCHANGED <<calcVars, fanVars, guardVars, hystVars, interpVars, execVars, now, sig, loop>>

\* timeout_tx.send(true)
WatchdogSignal ==
    /\ Alive
    /\ wd.pc = "signal"
    /\ wd' = [wd EXCEPT !.pc = "exit", !.timeout_tx = TRUE]
    /\ UNCHANGED <<calcVars, fanVars, guardVars, hystVars, interpVars, execVars, now, sig, loop, proc>>

\* std::process::exit(5)
WatchdogExit ==
    /\ Alive
    /\ wd.pc = "exit"
    /\ proc' = [exit_code |-> Some(EXIT_WATCHDOG),
                events |-> Append(proc.events,
                                  Event("exit", "watchdog", EXIT_WATCHDOG))]
    /\ UNCHANGED <<calcVars, fanVars, guardVars, hystVars, interpVars, execVars, now, wd, sig, loop>>

\* main: the shutdown check at the top of every loop iteration
LoopCheckShutdown ==
    /\ Alive
    /\ loop.pc = "check"
    /\ loop' = [loop EXCEPT !.pc = IF sig.shutdown_requested
                                   THEN "shutdown" ELSE "work"]
    /\ UNCHANGED <<calcVars, fanVars, guardVars, hystVars, interpVars, execVars, now, wd, sig, proc>>

\* graceful_shutdown: a fresh executor, one reset_to_zero, exit code 0
\* whatever the result
LoopShutdownReset ==
    /\ Alive
    /\ loop.pc = "shutdown"
    /\ \E outcome \in SpawnOutcomes :
        LET r == reset_to_zero(RyzenadjExecutor_new, outcome) IN
        proc' = [proc EXCEPT !.events =
                    Append(@, Event("reset", "shutdown", 0))]
    /\ loop' = [loop EXCEPT !.pc = "shutdown_exit"]
    /\ UNCHANGED <<calcVars, fanVars, guardVars, hystVars, interpVars, execVars, now, wd, sig>>

\* main: std::process::exit(exit_code) with graceful_shutdown's 0
LoopShutdownExit ==
    /\ Alive
    /\ loop.pc = "shutdown_exit"
    /\ proc' = [exit_code |-> Some(0),
                events |-> Append(proc.events, Event("exit", "shutdown", 0))]
    /\ UNCHANGED <<calcVars, fanVars, guardVars, hystVars, interpVars, execVars, now, wd, sig, loop>>

\* the body of one tick (design section 4.7): actuate through
\* RyzenadjExecutor::apply, then record the heartbeat; a fatal result
\* ends the loop instead
LoopWork ==
    /\ Alive
    /\ loop.pc = "work"
    /\ now <= Horizon
    /\ \E outcome \in SpawnOutcomes :
        LET r == apply(ex, outcome) IN
            /\ ex' = r.self
            /\ IF r.ret.kind # "Ok"
               THEN /\ loop' = [loop EXCEPT !.pc = "fatal_reset"]
                    /\ wd' = wd
               ELSE /\ loop' = [loop EXCEPT !.pc = "check"]
                    /\ wd' = heartbeat(wd, now)
    /\ UNCHANGED <<calcVars, fanVars, guardVars, hystVars, interpVars, exlog, now, sig, proc>>

\* the fatal path of the loop (design sections 4.5 and 7): best-effort
\* reset, then exit with the code for consecutive-failure exhaustion
EXIT_MAX_FAILURES == 4

LoopFatalReset ==
    /\ Alive
    /\ loop.pc = "fatal_reset"
    /\ \E outcome \in SpawnOutcomes :
        proc' = [proc EXCEPT !.events = Append(@, Event("reset", "fatal", 0))]
    /\ loop' = [loop EXCEPT !.pc = "fatal_exit"]
    /\ UNCHANGED <<calcVars, fanVars, guardVars, hystVars, interpVars, execVars, now, wd, sig>>

LoopFatalExit ==
    /\ Alive
    /\ loop.pc = "fatal_exit"
    /\ proc' = [exit_code |-> Some(EXIT_MAX_FAILURES),
                events |-> Append(proc.events,
                                  Event("exit", "fatal", EXIT_MAX_FAILURES))]
    /\ UNCHANGED <<calcVars, fanVars, guardVars, hystVars, interpVars, execVars, now, wd, sig, loop>>

\* the control loop task stalls inside a tick and never yields again
LoopWedge ==
    /\ Alive
    /\ loop.pc = "work"
    /\ loop' = [loop EXCEPT !.pc = "wedged"]
    /\ UNCHANGED <<calcVars, fanVars, guardVars, hystVars, interpVars, execVars, now, wd, sig, proc>>

\* a panic is raised inside a tick: the installed hook starts to run
LoopPanic ==
    /\ Alive
    /\ loop.pc = "work"
    /\ loop' = [loop EXCEPT !.pc = "panic_hook"]
    /\ UNCHANGED <<calcVars, fanVars, guardVars, hystVars, interpVars, execVars, now, wd, sig, proc>>

\* the hook of install_panic_hook: one blocking run of the external
\* command, result discarded
PanicHookReset ==
    /\ Alive
    /\ loop.pc = "panic_hook"
    /\ \E outcome \in SpawnOutcomes :
        proc' = [proc EXCEPT !.events = Append(@, Event("reset", "panic", 0))]
    /\ loop' = [loop EXCEPT !.pc = "panic_default_hook"]
    /\ UNCHANGED <<calcVars, fanVars, guardVars, hystVars, interpVars, execVars, now, wd, sig>>

\* default_hook(panic_info): the panic is handed on
EXIT_PANIC == 101

PanicPropagate ==
    /\ Alive
    /\ loop.pc = "panic_default_hook"
    /\ proc' = [proc EXCEPT !.events =
                    Append(@, Event("propagate", "panic", 0))]
    /\ loop' = [loop EXCEPT !.pc = "panic_exit"]
    /\ UNCHANGED <<calcVars, fanVars, guardVars, hystVars, interpVars, execVars, now, wd, sig>>

\* the panic unwinds out of main: the process ends with code 101
PanicExit ==
    /\ Alive
    /\ loop.pc = "panic_exit"
    /\ proc' = [exit_code |-> Some(EXIT_PANIC),
                events |-> Append(proc.events,
                                  Event("exit", "panic", EXIT_PANIC))]
    /\ UNCHANGED <<calcVars, fanVars, guardVars, hystVars, interpVars, execVars, now, wd, sig, loop>>

DaemonNext ==
    \/ ClockTick \/ SignalShutdown
    \/ WatchdogStart \/ WatchdogWake \/ WatchdogPoll \/ WatchdogReset
    \/ WatchdogSignal
    \/ WatchdogExit
    \/ LoopCheckShutdown \/ LoopShutdownReset \/ LoopShutdownExit
    \/ LoopWork \/ LoopFatalReset \/ LoopFatalExit
    \/ LoopWedge \/ LoopPanic \/ PanicHookReset \/ PanicPropagate \/ PanicExit

(***************************************************************************)
(* hysteresis.rs: HysteresisController.  Loads are whole percents.         *)
(***************************************************************************)
HysteresisState_new ==
    [last_stable_load |-> None, last_output |-> 0, in_dead_band |-> FALSE]

HysteresisState_reset(state) == HysteresisState_new

HysteresisController_new(margin_percent, cores) ==
    [margin_percent |-> margin_percent,
     per_core_state |-> [c \in cores |-> HysteresisState_new]]

\* variant: the first call keeps the initial output
establish_baseline_drop(state, load, raw_target) ==
    [state |-> [state EXCEPT !.last_stable_load = Some(load),
                             !.in_dead_band = FALSE],
     ret |-> raw_target]

\* process, no baseline yet: the load becomes the baseline, the raw target
\* the output
establish_baseline(state, load, raw_target) ==
    [state |-> [last_stable_load |-> Some(load), last_output |-> raw_target,
                in_dead_band |-> FALSE],
     ret |-> raw_target]

\* variant: the bounds of the dead-band are excluded
within_dead_band_exclusive(last_stable, margin_percent, load) ==
    LET lower_bound == last_stable - margin_percent
        upper_bound == last_stable + margin_percent
    IN  load > lower_bound /\ load < upper_bound

\* process: the dead-band test
within_dead_band(last_stable, margin_percent, load) ==
    LET lower_bound == last_stable - margin_percent
        upper_bound == last_stable + margin_percent
    IN  load >= lower_bound /\ load <= upper_bound

\* variant: the baseline stays where it was when the dead-band is left
leave_dead_band_keep_baseline(state, load, raw_target) ==
    [state |-> [state EXCEPT !.in_dead_band = FALSE,
                             !.last_output = raw_target],
     ret |-> raw_target]

\* process, outside the dead-band: new baseline, new output
leave_dead_band(state, load, raw_target) ==
    [state |-> [last_stable_load |-> Some(load), last_output |-> raw_target,
                in_dead_band |-> FALSE],
     ret |-> raw_target]

\* HysteresisController::process
process(self, core_idx, load, raw_target) ==
    LET state == self.per_core_state[core_idx]
        r == IF ~IsSome(state.last_stable_load)
             THEN establish_baseline(state, load, raw_target)
             ELSE IF within_dead_band(Unwrap(state.last_stable_load),
                                      self.margin_percent, load)
             THEN [state |-> [state EXCEPT !.in_dead_band = TRUE],
                   ret |-> state.last_output]
             ELSE leave_dead_band(state, load, raw_target)
    IN  [self |-> [self EXCEPT !.per_core_state[core_idx] = r.state],
         ret |-> r.ret]

\* variant: every core is reset
reset_core_all(self, core_idx) ==
    [self EXCEPT !.per_core_state =
        [c \in DOMAIN self.per_core_state |-> HysteresisState_new]]

\* HysteresisController::reset_core
reset_core(self, core_idx) ==
    [self EXCEPT !.per_core_state[core_idx] = HysteresisState_reset(@)]

\* HysteresisController::reset
HysteresisController_reset(self) ==
    [self EXCEPT !.per_core_state =
        [c \in DOMAIN self.per_core_state |-> HysteresisState_reset(@[c])]]

(***************************************************************************)
(* The hysteresis controller as a state machine: any interleaving of       *)
(* process, reset_core and reset over the cores.                           *)
(***************************************************************************)
HystCores == {0, 1}
HystMargins == {1, 5}
HystLoads == {45, 49, 50, 51, 55, 56}
HystTargets == {-30, -20}

\* before is the state of the called core when the call was made
NoHystCall == [op |-> "none", core |-> 0, load |-> 0, raw_target |-> 0,
               ret |-> 0, before |-> HysteresisState_new]

HystIdle == hy = <<>>

\* est is, for every core, the input and candidate of the last call that
\* was the first after construction or reset, or whose input was further
\* than the margin from the input recorded before
HystInit ==
    hy \in {[ctl |-> HysteresisController_new(m, HystCores),
             est |-> [c \in HystCores |-> None],
             call |-> NoHystCall] : m \in HystMargins}

HystProcess ==
    \E c \in HystCores, load \in HystLoads, raw_target \in HystTargets :
        LET r == process(hy.ctl, c, load, raw_target)
            e == hy.est[c]
            moved == ~IsSome(e)
                        \/ Abs(load - Unwrap(e).load) > hy.ctl.margin_percent
        IN  /\ hy' = [ctl |-> r.self,
                      est |-> IF moved
                              THEN [hy.est EXCEPT ![c] =
                                      Some([load |-> load,
                                            output |-> raw_target])]
                              ELSE hy.est,
                      call |-> [op |-> "process", core |-> c, load |-> load,
                                raw_target |-> raw_target, ret |-> r.ret,
                                before |-> hy.ctl.per_core_state[c]]]
            /\ UNCHANGED <<calcVars, fanVars, guardVars, execVars, daemonVars,
                           interpVars>>

HystResetCore ==
    \E c \in HystCores :
        /\ hy' = [ctl |-> reset_core(hy.ctl, c),
                  est |-> [hy.est EXCEPT ![c] = None],
                  call |-> [NoHystCall EXCEPT
                              !.op = "reset_core", !.core = c,
                              !.before = hy.ctl.per_core_state[c]]]
        /\ UNCHANGED <<calcVars, fanVars, guardVars, execVars, daemonVars, interpVars>>

HystReset ==
    /\ hy' = [ctl |-> HysteresisController_reset(hy.ctl),
              est |-> [c \in HystCores |-> None],
              call |-> [NoHystCall EXCEPT !.op = "reset"]]
    /\ UNCHANGED <<calcVars, fanVars, guardVars, execVars, daemonVars, interpVars>>

HystNext == HystProcess \/ HystResetCore \/ HystReset

(***************************************************************************)
(* interpolation.rs: Interpolator                                          *)
(***************************************************************************)
CoreInterpolationState_new == [current |-> 0, target |-> 0]

\* variant: a full step is taken even when the target is nearer than that
interp_step_overshoot(diff, step_size) ==
    IF diff > 0 THEN step_size ELSE -step_size

\* CoreInterpolationState::tick: the signed step for a remaining difference
interp_step(diff, step_size) ==
    IF Abs(diff) <= step_size THEN diff
    ELSE IF diff > 0 THEN step_size
    ELSE -step_size

\* variant: every other value of current is held for a tick
CoreInterpolationState_tick_lazy(state, step_size) ==
    IF state.current = state.target \/ state.current % 2 # 0 THEN state
    ELSE [state EXCEPT !.current =
            @ + interp_step(state.target - state.current, step_size)]

\* CoreInterpolationState::tick
CoreInterpolationState_tick(state, step_size) ==
    IF state.current = state.target THEN state
    ELSE [state EXCEPT !.current =
            @ + interp_step(state.target - state.current, step_size)]

\* Interpolator::with_step_size
Interpolator_with_step_size(cores, step_size_mv) ==
    [states |-> [c \in cores |-> CoreInterpolationState_new],
     step_size_mv |-> step_size_mv]

\* Interpolator::set_target
Interpolator_set_target(self, core_idx, target) ==
    [self EXCEPT !.states[core_idx].target = target]

\* Interpolator::force_immediate
Interpolator_force_immediate(self, values) ==
    [self EXCEPT !.states =
        [c \in DOMAIN self.states |->
            [current |-> values[c], target |-> values[c]]]]

\* Interpolator::tick; the values returned are the new current values
Interpolator_tick(self) ==
    [self EXCEPT !.states =
        [c \in DOMAIN self.states |->
            CoreInterpolationState_tick(self.states[c], self.step_size_mv)]]

\* Interpolator::new
DEFAULT_STEP_SIZE_MV == 1
Interpolator_new(cores) == Interpolator_with_step_size(cores, DEFAULT_STEP_SIZE_MV)

\* Interpolator::is_transitioning
is_transitioning(self) ==
    \E c \in DOMAIN self.states :
        self.states[c].current # self.states[c].target

\* Interpolator::remaining_distance
remaining_distance(self, core_idx) ==
    Abs(self.states[core_idx].target - self.states[core_idx].current)

(***************************************************************************)
(* The interpolator as a state machine: targets are set, values forced and *)
(* ticks taken in any order.                                               *)
(***************************************************************************)
MaxInterpTicks == 4
InterpCores == {0, 1}
InterpValues == -3..0
InterpSteps == {1, 2}

InterpIdle == ip = <<>>

\* run is, for every core, the current value when its target was last set
\* and the number of ticks taken since; before is the states when the last
\* call was made
InterpInit ==
    ip \in {[itp |-> Interpolator_with_step_size(InterpCores, st),
             run |-> [c \in InterpCores |-> [start |-> 0, n |-> 0]],
             op |-> "none",
             before |-> [c \in InterpCores |-> CoreInterpolationState_new],
             ret |-> [c \in InterpCores |-> 0]] : st \in InterpSteps}

InterpSetTarget ==
    \E c \in InterpCores, target \in InterpValues :
        /\ ip' = [ip EXCEPT
                    !.itp = Interpolator_set_target(@, c, target),
                    !.run[c] = [start |-> ip.itp.states[c].current, n |-> 0],
                    !.op = "set_target",
                    !.before = ip.itp.states]
        /\ UNCHANGED <<calcVars, fanVars, guardVars, execVars, daemonVars, hystVars>>

InterpForceImmediate ==
    \E values \in [InterpCores -> InterpValues] :
        /\ ip' = [ip EXCEPT
                    !.itp = Interpolator_force_immediate(@, values),
                    !.run = [c \in InterpCores |->
                                [start |-> values[c], n |-> 0]],
                    !.op = "force_immediate",
                    !.before = ip.itp.states]
        /\ UNCHANGED <<calcVars, fanVars, guardVars, execVars, daemonVars, hystVars>>

InterpTick ==
    /\ \A c \in InterpCores : ip.run[c].n < MaxInterpTicks
    /\ LET r == Interpolator_tick(ip.itp) IN
        ip' = [ip EXCEPT
                 !.itp = r,
                 !.run = [c \in InterpCores |-> [@[c] EXCEPT !.n = @ + 1]],
                 !.op = "tick",
                 !.before = ip.itp.states,
                 !.ret = [c \in InterpCores |-> r.states[c].current]]
    /\ UNCHANGED <<calcVars, fanVars, guardVars, execVars, daemonVars, hystVars>>

InterpNext == InterpSetTarget \/ InterpForceImmediate \/ InterpTick

(***************************************************************************)
(* The two rate limiters side by side: an Interpolator and a PWMSmoother,  *)
(* each given targets, ticked and forced in any order.                     *)
(***************************************************************************)
LimValues == -2..0
LimPwms == {0, 100, 255}

NoLimCall == [op |-> "none", forced |-> None, prev_forced |-> None,
              transitioning |-> FALSE, prev_transitioning |-> FALSE,
              ret |-> None]

LimIdle == lim = <<>>

LimInit ==
    lim = [itp |-> Interpolator_new(InterpCores),
           pwm |-> PWMSmoother_new(DEFAULT_RAMP_TIME_DS),
           icall |-> NoLimCall, pcall |-> NoLimCall]

\* icall and pcall are the last call on each limiter: the value it forced,
\* whether a transition was in progress when it was made, the same two of
\* the call before it, and what it returned
LimInterpSetTarget ==
    \E c \in InterpCores, target \in LimValues :
        /\ lim' = [lim EXCEPT
                     !.itp = Interpolator_set_target(@, c, target),
                     !.icall = [NoLimCall EXCEPT
                                  !.op = "set_target",
                                  !.prev_forced = lim.icall.forced,
                                  !.prev_transitioning = lim.icall.transitioning,
                                  !.transitioning = is_transitioning(lim.itp)]]
        /\ UNCHANGED <<strat, crv, volt, fanVars, guardVars, execVars, daemonVars,
                       hystVars, interpVars>>

LimInterpForceImmediate ==
    \E values \in [InterpCores -> LimValues] :
        /\ lim' = [lim EXCEPT
                     !.itp = Interpolator_force_immediate(@, values),
                     !.icall = [NoLimCall EXCEPT
                                  !.op = "force_immediate",
                                  !.forced = Some(values),
                                  !.prev_forced = lim.icall.forced,
                                  !.prev_transitioning = lim.icall.transitioning,
                                  !.transitioning = is_transitioning(lim.itp)]]
        /\ UNCHANGED <<strat, crv, volt, fanVars, guardVars, execVars, daemonVars,
                       hystVars, interpVars>>

LimInterpTick ==
    /\ LET r == Interpolator_tick(lim.itp) IN
        lim' = [lim EXCEPT
                  !.itp = r,
                  !.icall = [NoLimCall EXCEPT
                               !.op = "tick",
                               !.prev_forced = lim.icall.forced,
                               !.prev_transitioning = lim.icall.transitioning,
                               !.transitioning = is_transitioning(lim.itp),
                               !.ret = Some([c \in InterpCores |->
                                                r.states[c].current])]]
    /\ UNCHANGED <<strat, crv, volt, fanVars, guardVars, execVars, daemonVars,
                   hystVars, interpVars>>

LimPwmSetTarget ==
    \E target \in LimPwms :
        /\ lim' = [lim EXCEPT
                     !.pwm = set_target(@, target),
                     !.pcall = [NoLimCall EXCEPT
                                  !.op = "set_target",
                                  !.prev_forced = lim.pcall.forced,
                                  !.prev_transitioning = lim.pcall.transitioning,
                                  !.transitioning = ~at_target(lim.pwm)]]
        /\ UNCHANGED <<strat, crv, volt, fanVars, guardVars, execVars, daemonVars,
                       hystVars, interpVars>>

LimPwmForceImmediate ==
    \E pwm \in LimPwms :
        /\ lim' = [lim EXCEPT
                     !.pwm = force_immediate(@, pwm),
                     !.pcall = [NoLimCall EXCEPT
                                  !.op = "force_immediate",
                                  !.forced = Some(pwm),
                                  !.prev_forced = lim.pcall.forced,
                                  !.prev_transitioning = lim.pcall.transitioning,
                                  !.transitioning = ~at_target(lim.pwm)]]
        /\ UNCHANGED <<strat, crv, volt, fanVars, guardVars, execVars, daemonVars,
                       hystVars, interpVars>>

LimPwmUpdate ==
    \E elapsed \in ElapsedChoices :
        /\ LET r == smoother_update(lim.pwm, elapsed) IN
            lim' = [lim EXCEPT
                      !.pwm = r.s,
                      !.pcall = [NoLimCall EXCEPT
                                   !.op = "update",
                                   !.prev_forced = lim.pcall.forced,
                                   !.prev_transitioning = lim.pcall.transitioning,
                                   !.transitioning = ~at_target(lim.pwm),
                                   !.ret = Some(r.out)]]
        /\ UNCHANGED <<strat, crv, volt, fanVars, guardVars, execVars, daemonVars,
                       hystVars, interpVars>>

LimNext ==
    \/ LimInterpSetTarget \/ LimInterpForceImmediate \/ LimInterpTick
    \/ LimPwmSetTarget \/ LimPwmForceImmediate \/ LimPwmUpdate

(***************************************************************************)
(* strategy/: the adaptation strategies                                    *)
(*                                                                         *)
(* Loads are f32 percentages; they are kept here as whole percents, and a  *)
(* quotient is rounded as f32::round does it, half away from zero.  The    *)
(* loads drawn below are multiples of 25, for which the f32 quotients      *)
(* load / 100 and the interpolation ratios that can produce a tie are      *)
(* exact.                                                                  *)
(***************************************************************************)
\* (n / d).round() as i32, for d > 0
RoundDiv(n, d) ==
    IF n >= 0 THEN (2 * n + d) \div (2 * d)
    ELSE -((2 * (-n) + d) \div (2 * d))

\* variant: the value is handed on as it is
clamp_to_bounds_none(value, bounds) == value

\* strategy/mod.rs: clamp_to_bounds
clamp_to_bounds(value, bounds) ==
    Min(Max(value, bounds.max_mv), bounds.min_mv)

\* strategy/mod.rs: lerp, with t = tn / td
lerp(a, b, tn, td) ==
    LET n == Clamp(tn, 0, td) IN RoundDiv(a * td + (b - a) * n, td)

\* ConservativeStrategy::calculate_target
ConservativeStrategy_calculate_target(load, bounds) ==
    clamp_to_bounds(lerp(bounds.max_mv, bounds.min_mv, Clamp(load, 0, 100), 100),
                    bounds)

\* BalancedStrategy::calculate_target
BalancedStrategy_calculate_target(load, bounds) ==
    clamp_to_bounds(lerp(bounds.max_mv, bounds.min_mv, Clamp(load, 0, 100), 100),
                    bounds)

\* AggressiveStrategy::calculate_target: 0 % load gives max_mv, 100 % load
\* min_mv, linear in between
AggressiveStrategy_calculate_target(load, bounds) ==
    clamp_to_bounds(lerp(bounds.max_mv, bounds.min_mv, Clamp(load, 0, 100), 100),
                    bounds)

CurvePoint(load, mv) == [load |-> load, mv |-> mv]

\* the stable sort_by of CustomStrategy::new: p goes behind every point of
\* the sorted sequence whose load is not greater
RECURSIVE InsertByLoad(_, _)
InsertByLoad(sorted, p) ==
    IF sorted = <<>> THEN <<p>>
    ELSE IF sorted[Len(sorted)].load <= p.load THEN Append(sorted, p)
    ELSE Append(InsertByLoad(SubSeq(sorted, 1, Len(sorted) - 1), p),
                sorted[Len(sorted)])

RECURSIVE SortByLoad(_)
SortByLoad(curve) ==
    IF curve = <<>> THEN <<>>
    ELSE InsertByLoad(SortByLoad(SubSeq(curve, 1, Len(curve) - 1)),
                      curve[Len(curve)])

\* CustomStrategy::new
CustomStrategy_new(curve) ==
    LET sorted == SortByLoad(curve) IN
    IF sorted = <<>> THEN <<CurvePoint(0, 0)>> ELSE sorted

\* the scan of CustomStrategy::interpolate from point i on: the indices
\* lower_idx and upper_idx it ends with
RECURSIVE ScanCurve(_, _, _, _, _)
ScanCurve(curve, load, i, lower_idx, upper_idx) ==
    IF i > Len(curve) THEN [lower_idx |-> lower_idx, upper_idx |-> upper_idx]
    ELSE LET lower == IF curve[i].load <= load THEN i ELSE lower_idx IN
         IF curve[i].load >= load /\ i < upper_idx
         THEN [lower_idx |-> lower, upper_idx |-> i]
         ELSE ScanCurve(curve, load, i + 1, lower, upper_idx)

\* CustomStrategy::interpolate
CustomStrategy_interpolate(curve, load_in) ==
    LET load == Clamp(load_in, 0, 100)
        idx == ScanCurve(curve, load, 1, 1, Len(curve))
        p1 == curve[idx.lower_idx]
        p2 == curve[idx.upper_idx]
    IN  IF Len(curve) = 1 THEN curve[1].mv
        ELSE IF load <= curve[1].load THEN curve[1].mv
        ELSE IF load >= curve[Len(curve)].load THEN curve[Len(curve)].mv
        ELSE IF p2.load - p1.load = 0 THEN p1.mv
        ELSE IF p2.load > p1.load
        THEN RoundDiv(p1.mv * (p2.load - p1.load)
                        + (p2.mv - p1.mv) * (load - p1.load),
                      p2.load - p1.load)
        ELSE RoundDiv(-(p1.mv * (p2.load - p1.load)
                          + (p2.mv - p1.mv) * (load - p1.load)),
                      p1.load - p2.load)

\* CustomStrategy::calculate_target
CustomStrategy_calculate_target(curve, load, bounds) ==
    clamp_to_bounds(CustomStrategy_interpolate(curve, load), bounds)

\* the dispatch of AdaptationStrategy::calculate_target over the objects
\* create_strategy returns
calculate_target(strategy, load, bounds) ==
    CASE strategy.kind = "conservative" ->
            ConservativeStrategy_calculate_target(load, bounds)
      [] strategy.kind = "balanced" ->
            BalancedStrategy_calculate_target(load, bounds)
      [] strategy.kind = "aggressive" ->
            AggressiveStrategy_calculate_target(load, bounds)
      [] strategy.kind = "custom" ->
            CustomStrategy_calculate_target(strategy.curve, load, bounds)

(***************************************************************************)
(* A strategy as a pure function: Init draws a strategy, bounds and two    *)
(* loads, the one action evaluates the strategy at both.                   *)
(***************************************************************************)
MaxCurvePoints == 3
StratLoads == {0, 25, 50, 100}
StratCurveLoads == {0, 50, 100}
StratCurveValues == {-40, -25, 10}

\* CoreBounds as validate_core_config_values lets them through
StratBounds ==
    {[min_mv |-> -20, max_mv |-> -35], [min_mv |-> 0, max_mv |-> -50],
     [min_mv |-> -25, max_mv |-> -25]}

StratCurves ==
    UNION {[1..n -> {CurvePoint(l, v) : l \in StratCurveLoads,
                                        v \in StratCurveValues}] :
             n \in 0..MaxCurvePoints}

Strategies ==
    {[kind |-> k, curve |-> <<>>] :
        k \in {"conservative", "balanced", "aggressive"}}
    \cup {[kind |-> "custom", curve |-> CustomStrategy_new(c)] :
            c \in StratCurves}

StratIdle == strat = <<>>

StratInit ==
    strat \in {[strategy |-> st, bounds |-> b, load1 |-> l1, load2 |-> l2,
                done |-> FALSE, target1 |-> 0, target2 |-> 0] :
                 st \in Strategies, b \in StratBounds,
                 l1 \in StratLoads, l2 \in StratLoads}

StratCalculate ==
    /\ ~strat.done
    /\ strat' = [strat EXCEPT
                   !.done = TRUE,
                   !.target1 = calculate_target(strat.strategy, strat.load1,
                                                strat.bounds),
                   !.target2 = calculate_target(strat.strategy, strat.load2,
                                                strat.bounds)]
    /\ UNCHANGED <<lim, crv, volt, fanVars, guardVars, execVars, daemonVars,
                   hystVars, interpVars>>

(***************************************************************************)
(* The decision curves: FanCurve (fan/controller.rs), FrequencyCurve       *)
(* (dynamic/frequency_curve.rs) and the curve of CustomStrategy            *)
(***************************************************************************)
\* the stable sort_by_key of FanCurve::new
RECURSIVE InsertByTemp(_, _)
InsertByTemp(sorted, p) ==
    IF sorted = <<>> THEN <<p>>
    ELSE IF sorted[Len(sorted)].temp_c <= p.temp_c THEN Append(sorted, p)
    ELSE Append(InsertByTemp(SubSeq(sorted, 1, Len(sorted) - 1), p),
                sorted[Len(sorted)])

RECURSIVE SortByTemp(_)
SortByTemp(points) ==
    IF points = <<>> THEN <<>>
    ELSE InsertByTemp(SortByTemp(SubSeq(points, 1, Len(points) - 1)),
                      points[Len(points)])

\* FanCurve::new
FanCurve_new(points) ==
    IF Len(points) < 2 THEN Err ELSE Ok(SortByTemp(points))

\* FanCurve::from_tuples
FanCurve_from_tuples(tuples) ==
    FanCurve_new([i \in 1..Len(tuples) |->
                    FanCurvePoint(tuples[i][1], tuples[i][2])])

FrequencyPoint(f, v) == [frequency_mhz |-> f, voltage_mv |-> v]

\* the scan of get_voltage_at_frequency, from segment i on
RECURSIVE ScanFrequencies(_, _, _)
ScanFrequencies(points, freq_mhz, i) ==
    IF i >= Len(points) THEN Err
    ELSE LET p1 == points[i]
             p2 == points[i + 1]
             freq_range == p2.frequency_mhz - p1.frequency_mhz
             voltage_range == p2.voltage_mv - p1.voltage_mv
             freq_offset == freq_mhz - p1.frequency_mhz
         IN  IF p1.frequency_mhz <= freq_mhz /\ freq_mhz <= p2.frequency_mhz
             THEN IF freq_range = 0 THEN Ok(p1.voltage_mv)
                  ELSE Ok(p1.voltage_mv
                            + TruncDiv(voltage_range * freq_offset, freq_range))
             ELSE ScanFrequencies(points, freq_mhz, i + 1)

\* FrequencyCurve::get_voltage_at_frequency
get_voltage_at_frequency(points, freq_mhz) ==
    IF points = <<>> THEN Err
    ELSE IF Len(points) = 1 THEN Ok(points[1].voltage_mv)
    ELSE IF freq_mhz <= points[1].frequency_mhz THEN Ok(points[1].voltage_mv)
    ELSE IF freq_mhz >= points[Len(points)].frequency_mhz
         THEN Ok(points[Len(points)].voltage_mv)
    ELSE ScanFrequencies(points, freq_mhz, 1)

\* FrequencyCurve::validate
validate(points) ==
    /\ points # <<>>
    /\ \A i \in 1..Len(points) :
        points[i].voltage_mv >= -100 /\ points[i].voltage_mv <= 0
    /\ \A i \in 1..(Len(points) - 1) :
        points[i].frequency_mhz < points[i + 1].frequency_mhz

(***************************************************************************)
(* A curve as a pure function: Init draws the kind of curve, the points    *)
(* handed to its constructor and an input; one action constructs the       *)
(* curve, the other evaluates it at the input.                             *)
(***************************************************************************)
CurveTemps == {40, 60, 80}
CurveSpeeds == {20, 60, 150}
CurveFreqs == {400, 800, 1600}
CurveVolts == {-120, -30, -10}
CurveInputs ==
    [fan |-> {30, 40, 50, 60, 80, 90},
     frequency |-> {200, 400, 600, 800, 1600, 2000},
     custom |-> {0, 25, 50, 100}]

\* the sequences of up to MaxCurvePoints pairs <<input, output>>
PointLists(inputs, outputs) ==
    UNION {[1..n -> inputs \X outputs] : n \in 0..MaxCurvePoints}

CurveIdle == crv = <<>>

CurveInit ==
    crv \in {[kind |-> k, given |-> g, x |-> x, stage |-> "given",
              built |-> Err, out |-> Err] :
                k \in {"fan"}, g \in PointLists(CurveTemps, CurveSpeeds),
                x \in CurveInputs.fan}
        \cup {[kind |-> k, given |-> g, x |-> x, stage |-> "given",
               built |-> Err, out |-> Err] :
                k \in {"frequency"}, g \in PointLists(CurveFreqs, CurveVolts),
                x \in CurveInputs.frequency}
        \cup {[kind |-> k, given |-> g, x |-> x, stage |-> "given",
               built |-> Err, out |-> Err] :
                k \in {"custom"},
                g \in PointLists(StratCurveLoads, StratCurveValues),
                x \in CurveInputs.custom}

\* FanCurve::from_tuples; FrequencyCurve::new, kept if validate accepts it;
\* CustomStrategy::new
CurveConstruct ==
    /\ crv.stage = "given"
    /\ LET g == crv.given IN
        crv' = [crv EXCEPT
                  !.stage = "built",
                  !.built =
                    CASE crv.kind = "fan" -> FanCurve_from_tuples(g)
                      [] crv.kind = "frequency" ->
                            LET pts == [i \in 1..Len(g) |->
                                          FrequencyPoint(g[i][1], g[i][2])]
                            IN  IF validate(pts) THEN Ok(pts) ELSE Err
                      [] crv.kind = "custom" ->
                            Ok(CustomStrategy_new(
                                 [i \in 1..Len(g) |->
                                    CurvePoint(g[i][1], g[i][2])]))]
    /\ UNCHANGED <<lim, strat, volt, fanVars, guardVars, execVars, daemonVars,
                   hystVars, interpVars>>

\* calculate_speed, get_voltage_at_frequency or interpolate at x
CurveEvaluate ==
    /\ crv.stage = "built"
    /\ crv.built.ok
    /\ LET c == crv.built.val IN
        crv' = [crv EXCEPT
                  !.stage = "evaluated",
                  !.out =
                    CASE crv.kind = "fan" -> Ok(calculate_speed(c, crv.x))
                      [] crv.kind = "frequency" ->
                            get_voltage_at_frequency(c, crv.x)
                      [] crv.kind = "custom" ->
                            Ok(CustomStrategy_interpolate(c, crv.x))]
    /\ UNCHANGED <<lim, strat, volt, fanVars, guardVars, execVars, daemonVars,
                   hystVars, interpVars>>

CurveNext == CurveConstruct \/ CurveEvaluate

(***************************************************************************)
(* dynamic/voltage_controller.rs: CoreConfig and VoltageController.        *)
(* Cores are numbered from 0 as in the source.  Loads are whole percent,   *)
(* so (load - threshold) / range and its product with the voltage range    *)
(* are exact in f32 for the values used here.  Each write to a core's      *)
(* voltage_offset file has one of three outcomes decided by the file       *)
(* system: the cpufreq directory is absent and nothing is written, the     *)
(* write succeeds, or the write fails with an I/O error.                   *)
(***************************************************************************)
VoltCores == {0, 1}
VoltLoads == {0, 75}
SysfsOutcomes == {"absent", "written", "denied"}

\* CoreConfig::calculate_voltage
CoreConfig_calculate_voltage(self, load) ==
    LET l == Min(Max(load, 0), 100) IN
    IF l <= self.threshold THEN self.min_mv
    ELSE LET range == 100 - self.threshold IN
         IF range <= 0 THEN self.min_mv
         ELSE LET progress_n == l - self.threshold
                  voltage_range == self.max_mv - self.min_mv
              IN  self.min_mv + RoundDiv(voltage_range * progress_n, range)

\* CoreConfig::to_bounds
to_bounds(self) ==
    [min_mv |-> self.max_mv, max_mv |-> self.min_mv,
     threshold |-> self.threshold]

\* safety.rs: clamp_value
clamp_value(value, bounds) == Min(Max(value, bounds.max_mv), bounds.min_mv)

\* VoltageController::new
VoltageController_new(cores) ==
    [cores |-> [core_id \in cores |->
                  [config |-> [core_id |-> core_id, min_mv |-> -30,
                               max_mv |-> -15, threshold |-> 50],
                   current_voltage |-> 0,
                   last_load |-> 0]],
     active |-> FALSE]

\* VoltageController::num_cores
num_cores(self) == Cardinality(DOMAIN self.cores)

\* VoltageController::apply_voltage: the result and the files afterwards
apply_voltage(sysfs, core_id, voltage_mv, outcome) ==
    CASE outcome = "absent" -> [ok |-> TRUE, sysfs |-> sysfs]
      [] outcome = "written" ->
            [ok |-> TRUE,
             sysfs |-> [sysfs EXCEPT ![core_id] = Some(voltage_mv)]]
      [] outcome = "denied" -> [ok |-> FALSE, sysfs |-> sysfs]

\* VoltageController::start
VoltageController_start(self) ==
    IF self.active THEN [ret |-> Err, self |-> self]
    ELSE [ret |-> Ok(0), self |-> [self EXCEPT !.active = TRUE]]

\* the loop of VoltageController::stop from core_id on, and what follows it
RECURSIVE stop_from(_, _, _, _)
stop_from(self, sysfs, core_id, outcomes) ==
    IF core_id >= num_cores(self)
    THEN [ret |-> Ok(0), self |-> [self EXCEPT !.active = FALSE],
          sysfs |-> sysfs]
    ELSE LET a == apply_voltage(sysfs, core_id, 0, outcomes[core_id]) IN
         IF ~a.ok THEN [ret |-> Err, self |-> self, sysfs |-> a.sysfs]
         ELSE stop_from([self EXCEPT !.cores[core_id].current_voltage = 0],
                        a.sysfs, core_id + 1, outcomes)

\* VoltageController::stop
VoltageController_stop(self, sysfs, outcomes) ==
    IF ~self.active THEN [ret |-> Err, self |-> self, sysfs |-> sysfs]
    ELSE stop_from(self, sysfs, 0, outcomes)

\* VoltageController::update_and_apply
update_and_apply(self, sysfs, core_id, load, outcome) ==
    IF ~self.active THEN [ret |-> Err, self |-> self, sysfs |-> sysfs]
    ELSE IF core_id >= num_cores(self)
    THEN [ret |-> Err, self |-> self, sysfs |-> sysfs]
    ELSE LET config == self.cores[core_id].config
             target_voltage == CoreConfig_calculate_voltage(config, load)
             bounds == to_bounds(config)
             safe_voltage == clamp_value(target_voltage, bounds)
             a == apply_voltage(sysfs, core_id, safe_voltage, outcome)
         IN  IF ~a.ok THEN [ret |-> Err, self |-> self, sysfs |-> a.sysfs]
             ELSE [ret |-> Ok(safe_voltage),
                   self |-> [self EXCEPT
                               !.cores[core_id].current_voltage =
                                   safe_voltage,
                               !.cores[core_id].last_load = load],
                   sysfs |-> a.sysfs]

NoVoltCall == [op |-> "none", ret |-> Err, before |-> <<>>]

VoltIdle == volt = <<>>

VoltInit ==
    volt = [vc |-> VoltageController_new(VoltCores),
            sysfs |-> [core_id \in VoltCores |-> None],
            call |-> NoVoltCall]

VoltStart ==
    /\ LET r == VoltageController_start(volt.vc) IN
        volt' = [volt EXCEPT
                   !.vc = r.self,
                   !.call = [op |-> "start", ret |-> r.ret,
                             before |-> volt.vc]]
    /\ UNCHANGED <<lim, strat, crv, fanVars, guardVars, execVars,
                   daemonVars, hystVars, interpVars>>

VoltStop ==
    /\ \E outcomes \in [VoltCores -> SysfsOutcomes] :
        LET r == VoltageController_stop(volt.vc, volt.sysfs, outcomes) IN
        volt' = [vc |-> r.self, sysfs |-> r.sysfs,
                 call |-> [op |-> "stop", ret |-> r.ret,
                           before |-> volt.vc]]
    /\ UNCHANGED <<lim, strat, crv, fanVars, guardVars, execVars,
                   daemonVars, hystVars, interpVars>>

VoltUpdateAndApply ==
    /\ \E core_id \in VoltCores \cup {Cardinality(VoltCores)},
          load \in VoltLoads, outcome \in SysfsOutcomes :
        LET r == update_and_apply(volt.vc, volt.sysfs, core_id, load,
                                  outcome) IN
        volt' = [vc |-> r.self, sysfs |-> r.sysfs,
                 call |-> [op |-> "update_and_apply", ret |-> r.ret,
                           before |-> volt.vc]]
    /\ UNCHANGED <<lim, strat, crv, fanVars, guardVars, execVars,
                   daemonVars, hystVars, interpVars>>

VoltNext == VoltStart \/ VoltStop \/ VoltUpdateAndApply

CalcIdle == LimIdle /\ StratIdle /\ CurveIdle /\ VoltIdle

(***************************************************************************)
(* End-to-end fan scenario: the curve {40 C -> 20 %, 80 C -> 100 %}, an    *)
(* active controller with the default configuration and a fresh smoother,  *)
(* and a sensor that reads 60 C at every tick.  The ticks come at the      *)
(* nominal 0.5 s or 0.1 s early or late.                                   *)
(***************************************************************************)
DEFAULT_SMOOTHING_SAMPLES == 5
ScenarioTailMs == 1500

ScenarioCurve == << FanCurvePoint(40, 20), FanCurvePoint(80, 100) >>
ScenarioTemp == 60
ScenarioElapsed == {4, 5, 6}

\* pwm_ramp_time_sec: the default, and a slow ramp of 25.5 s
ScenarioRamps == {DEFAULT_RAMP_TIME_DS, 255}

\* impl Default for FanControllerConfig
DefaultFanControllerConfig ==
    [hysteresis_temp |-> DEFAULT_HYSTERESIS_TEMP,
     smoothing_samples |-> DEFAULT_SMOOTHING_SAMPLES,
     safety_limits |-> DefaultFanSafetyLimits,
     min_pwm_change |-> 3,
     pwm_smoothing_enabled |-> TRUE]

\* with_device, set_curve, set_config with the ramp time, enable
ScenarioController(ramp_time_ds) ==
    [with_device(ScenarioCurve, DefaultFanControllerConfig) EXCEPT
        !.pwm_smoother = PWMSmoother_new(ramp_time_ds),
        !.active = TRUE]

\* the ramp time the controller's smoother was made with, in ms
RampTimeMs(self) ==
    100 * ((255 * UnitsPerPwm) \div self.pwm_smoother.ramp_rate_increase)

ScenarioInit ==
    /\ fc \in {ScenarioController(r) : r \in ScenarioRamps}
    /\ dev = set_mode([pwm1 |-> 0, pwm1_enable |-> FAN_MODE_AUTO,
                       took_control |-> FALSE, written |-> None], FAN_MODE_MANUAL)
    /\ upd = NoCall
    /\ ticks = 0
    /\ now = 0
    /\ wd = <<>> /\ sig = <<>> /\ loop = <<>> /\ proc = <<>>

\* one tick: FanController::update with the sensor at 60 C and a healthy
\* device, elapsed tenths of a second after the tick before
ScenarioTick ==
    /\ now < RampTimeMs(fc) + ScenarioTailMs
    /\ \E elapsed \in ScenarioElapsed :
        LET r == update(fc, dev, Some(ScenarioTemp), elapsed, TRUE) IN
            /\ fc' = r.fc
            /\ dev' = r.dev
            /\ upd' = r.upd
            /\ now' = now + 100 * elapsed
    /\ UNCHANGED <<calcVars, ticks, guardVars, hystVars, interpVars, execVars,
                   wd, sig, loop, proc>>

(***************************************************************************)
(* main.rs: the daemon's main loop with its fan controller, the signal     *)
(* listeners and the panic hook, as the tasks of one process.              *)
(***************************************************************************)
FAN_UPDATE_INTERVAL == 5
TICK_SLEEP_DS == 1

\* SIGUSR1 signals counted between two takes of the flag
MaxUsr1 == 2

\* the temperatures the sensor may report to the main loop
MainTemps == {50, 90}

\* FanController::disable; wr_ok is whether the write of pwm1_enable
\* succeeds
disable(self, d, wr_ok) ==
    IF wr_ok
    THEN [fc |-> [self EXCEPT !.active = FALSE,
                              !.temp_history = <<>>,
                              !.last_stable_temp = None,
                              !.pwm_smoother = smoother_reset(@)],
          dev |-> set_mode(d, FAN_MODE_AUTO), ret |-> Ok(0)]
    ELSE [fc |-> self, dev |-> d, ret |-> Err]

\* Drop for HwmonDevice: a best-effort write of pwm1_enable = 2
HwmonDevice_drop(d, wr_ok) ==
    IF d.took_control /\ wr_ok
    THEN [d EXCEPT !.pwm1_enable = FAN_MODE_AUTO] ELSE d

\* the controller main configures: the default curve, the default config
\* with the zero-RPM switch of the command line
MainFanController(zero_rpm) ==
    with_device(DefaultFanCurve,
                [hysteresis_temp |-> DEFAULT_HYSTERESIS_TEMP,
                 smoothing_samples |-> MaxSamples,
                 safety_limits |-> [DefaultFanSafetyLimits
                                      EXCEPT !.allow_zero_rpm = zero_rpm],
                 min_pwm_change |-> 3,
                 pwm_smoothing_enabled |-> TRUE])

\* what init_fan_controller leaves behind: no controller (fan control off,
\* no device, or enable failed), a controller under BIOS control (default
\* mode), or a controller that has taken manual control
MainFanStates ==
    {[has_fan |-> FALSE, fc |-> MainFanController(FALSE),
      dev |-> [pwm1 |-> 0, pwm1_enable |-> FAN_MODE_AUTO,
               took_control |-> FALSE, written |-> None]]}
    \cup
    {[has_fan |-> TRUE, fc |-> MainFanController(z),
      dev |-> [pwm1 |-> 0, pwm1_enable |-> FAN_MODE_AUTO,
               took_control |-> FALSE, written |-> None]] : z \in BOOLEAN}
    \cup
    {[has_fan |-> TRUE,
      fc |-> [MainFanController(z) EXCEPT !.active = TRUE],
      dev |-> set_mode([pwm1 |-> 0, pwm1_enable |-> FAN_MODE_AUTO,
                        took_control |-> FALSE, written |-> None], FAN_MODE_MANUAL)] :
        z \in BOOLEAN}

MainInit ==
    /\ \E f \in MainFanStates :
        /\ fc = f.fc
        /\ dev = f.dev
        /\ loop = [pc |-> "top", tick_count |-> 0, has_fan |-> f.has_fan,
                   did |-> "init"]
    /\ upd = NoCall
    /\ ticks = 0
    /\ now = 0
    /\ wd = <<>>
    /\ sig = [shutdown_requested |-> FALSE, force_status |-> FALSE]
    /\ proc = [exit_code |-> None, events |-> <<>>, release |-> "none",
               usr1_pending |-> 0]

\* variant: the flag is flipped instead of stored
SignalUsr1_toggle ==
    /\ Alive
    /\ proc.usr1_pending < MaxUsr1
    /\ sig' = [sig EXCEPT !.force_status = ~@]
    /\ proc' = [proc EXCEPT !.usr1_pending = @ + 1]
    /\ UNCHANGED <<calcVars, fanVars, guardVars, hystVars, interpVars, execVars, now, wd, loop>>

\* the SIGUSR1 listener task of SignalHandler::start: set_force_status.
\* usr1_pending counts the signals received since the last
\* take_force_status.
SignalUsr1 ==
    /\ Alive
    /\ proc.usr1_pending < MaxUsr1
    /\ sig' = [sig EXCEPT !.force_status = TRUE]
    /\ proc' = [proc EXCEPT !.usr1_pending = @ + 1]
    /\ UNCHANGED <<calcVars, fanVars, guardVars, hystVars, interpVars, execVars, now, wd, loop>>

\* variant: the loop goes on with the tick after seeing the shutdown flag
MainTick_continue ==
    /\ Alive
    /\ loop.pc = "top"
    /\ loop' = [loop EXCEPT
                  !.tick_count = (@ + 1) % FAN_UPDATE_INTERVAL,
                  !.pc = "fan",
                  !.did = IF sig.shutdown_requested THEN "observe" ELSE "tick"]
    /\ proc' = IF sig.shutdown_requested
               THEN [proc EXCEPT !.events =
                        IF Len(@) = 0
                        THEN Append(@, Event("observe", "shutdown", 0)) ELSE @]
               ELSE proc
    /\ UNCHANGED <<calcVars, fanVars, guardVars, hystVars, interpVars, execVars, now, wd, sig>>

\* the top of one loop iteration: tick_count += 1 (kept modulo the fan
\* interval, the only way it is used), then the shutdown check
MainTick ==
    /\ Alive
    /\ loop.pc = "top"
    /\ loop' = [loop EXCEPT
                  !.tick_count = (@ + 1) % FAN_UPDATE_INTERVAL,
                  !.pc = IF sig.shutdown_requested
                         THEN "shutdown_fan" ELSE "fan",
                  !.did = IF sig.shutdown_requested THEN "observe" ELSE "tick"]
    /\ proc' = IF sig.shutdown_requested
               THEN [proc EXCEPT !.events =
                        Append(@, Event("observe", "shutdown", 0))]
               ELSE proc
    /\ UNCHANGED <<calcVars, fanVars, guardVars, hystVars, interpVars, execVars, now, wd, sig>>

\* shutdown: fc.disable() if there is a controller; a failure is only
\* reported
MainShutdownDisable ==
    /\ Alive
    /\ loop.pc = "shutdown_fan"
    /\ \E wr_ok \in BOOLEAN :
        LET r == disable(fc, dev, wr_ok) IN
        IF loop.has_fan
        THEN /\ fc' = r.fc
             /\ dev' = r.dev
             /\ upd' = [NoCall EXCEPT !.op = "disable", !.ret = r.ret]
             /\ proc' = [proc EXCEPT
                           !.events = Append(@, Event("disable", "shutdown", 0)),
                           !.release = IF wr_ok THEN "ok" ELSE "failed"]
        ELSE UNCHANGED <<fc, dev, upd, proc>>
    /\ loop' = [loop EXCEPT !.pc = "shutdown_reset", !.did = "disable"]
    /\ UNCHANGED <<calcVars, ticks, guardVars, hystVars, interpVars, execVars, now, wd, sig>>

\* shutdown: graceful_shutdown, one reset_to_zero on a fresh executor
MainShutdownReset ==
    /\ Alive
    /\ loop.pc = "shutdown_reset"
    /\ \E outcome \in SpawnOutcomes :
        LET r == reset_to_zero(RyzenadjExecutor_new, outcome) IN
        proc' = [proc EXCEPT !.events =
                    Append(@, Event("reset", "shutdown", 0))]
    /\ loop' = [loop EXCEPT !.pc = "shutdown_exit", !.did = "reset"]
    /\ UNCHANGED <<calcVars, fanVars, guardVars, hystVars, interpVars, execVars, now, wd, sig>>

\* shutdown: std::process::exit with graceful_shutdown's code 0; no
\* destructor runs
MainShutdownExit ==
    /\ Alive
    /\ loop.pc = "shutdown_exit"
    /\ proc' = [proc EXCEPT !.exit_code = Some(0),
                            !.events = Append(@, Event("exit", "shutdown", 0))]
    /\ loop' = [loop EXCEPT !.did = "exit"]
    /\ UNCHANGED <<calcVars, fanVars, guardVars, hystVars, interpVars, execVars, now, wd, sig>>

\* the fan stage of a tick: every FAN_UPDATE_INTERVAL-th tick, update()
\* on an active controller; an error is only reported
MainFanUpdate ==
    /\ Alive
    /\ loop.pc = "fan"
    /\ IF loop.tick_count = 0 /\ loop.has_fan /\ fc.active
       THEN \E rd \in {None} \cup {Some(t) : t \in MainTemps},
               wr_ok \in BOOLEAN :
              LET r == update(fc, dev, rd,
                              FAN_UPDATE_INTERVAL * TICK_SLEEP_DS, wr_ok) IN
                /\ fc' = r.fc
                /\ dev' = r.dev
                /\ upd' = r.upd
                /\ loop' = [loop EXCEPT !.pc = "status", !.did = "fan_update"]
       ELSE /\ upd' = NoCall
            /\ loop' = [loop EXCEPT !.pc = "status", !.did = "fan_skip"]
            /\ UNCHANGED <<fc, dev>>
    /\ UNCHANGED <<calcVars, ticks, guardVars, hystVars, interpVars, execVars, now, wd, sig, proc>>

\* variant: the status stage also clears the shutdown request
MainForceStatus_reset ==
    /\ Alive
    /\ loop.pc = "status"
    /\ sig' = [shutdown_requested |-> FALSE, force_status |-> FALSE]
    /\ loop' = [loop EXCEPT !.pc = "top",
                            !.did = IF sig.force_status
                                    THEN "status" ELSE "sleep"]
    /\ proc' = [proc EXCEPT !.usr1_pending = 0]
    /\ UNCHANGED <<calcVars, fanVars, guardVars, hystVars, interpVars, execVars, now, wd>>

\* the status stage of a tick: take_force_status, a status line if it was
\* set, then the sleep that ends the iteration
MainForceStatus ==
    /\ Alive
    /\ loop.pc = "status"
    /\ sig' = [sig EXCEPT !.force_status = FALSE]
    /\ loop' = [loop EXCEPT !.pc = "top",
                            !.did = IF sig.force_status
                                    THEN "status" ELSE "sleep"]
    /\ proc' = [proc EXCEPT !.usr1_pending = 0]
    /\ UNCHANGED <<calcVars, fanVars, guardVars, hystVars, interpVars, execVars, now, wd>>

\* a panic is raised inside the fan or the status stage: the installed
\* hook starts to run
MainPanic ==
    /\ Alive
    /\ loop.pc \in {"fan", "status"}
    /\ loop' = [loop EXCEPT !.pc = "panic_hook", !.did = "panic"]
    /\ UNCHANGED <<calcVars, fanVars, guardVars, hystVars, interpVars, execVars, now, wd, sig, proc>>

\* the panic unwinds out of main: the controller and its device are
\* dropped, then the process ends with code 101
MainPanicUnwind ==
    /\ Alive
    /\ loop.pc = "panic_exit"
    /\ \E wr_ok \in BOOLEAN :
        /\ dev' = IF loop.has_fan THEN HwmonDevice_drop(dev, wr_ok) ELSE dev
        /\ proc' = [proc EXCEPT
                      !.exit_code = Some(EXIT_PANIC),
                      !.events = Append(@, Event("exit", "panic", EXIT_PANIC)),
                      !.release = IF loop.has_fan /\ dev.took_control
                                  THEN IF wr_ok THEN "ok" ELSE "failed"
                                  ELSE @]
    /\ UNCHANGED <<calcVars, fc, upd, ticks, guardVars, hystVars, interpVars, execVars, now, wd, sig, loop>>

MainNext ==
    \/ SignalShutdown \/ SignalUsr1
    \/ MainTick \/ MainShutdownDisable \/ MainShutdownReset
    \/ MainShutdownExit
    \/ MainFanUpdate \/ MainForceStatus
    \/ MainPanic \/ PanicHookReset \/ PanicPropagate \/ MainPanicUnwind

(***************************************************************************)
(* Specifications: one per part of the program; the variables of the      *)
(* other parts stay at their idle values.                                  *)
(***************************************************************************)
Init ==
    FanInit /\ GuardIdle /\ ExecIdle /\ DaemonIdle /\ HystIdle /\ InterpIdle
    /\ CalcIdle
Spec == Init /\ [][FanNext]_vars

InitGuard ==
    GuardInit /\ FanIdle /\ ExecIdle /\ DaemonIdle /\ HystIdle /\ InterpIdle
    /\ CalcIdle
SpecGuard == InitGuard /\ [][GuardApply]_vars

InitExec ==
    ExecInit /\ FanIdle /\ GuardIdle /\ DaemonIdle /\ HystIdle /\ InterpIdle
    /\ CalcIdle
SpecExec == InitExec /\ [][ExecNext]_vars

InitDaemon ==
    DaemonInit /\ FanIdle /\ GuardIdle /\ HystIdle /\ InterpIdle
    /\ CalcIdle
SpecDaemon == InitDaemon /\ [][DaemonNext]_vars

InitMain ==
    MainInit /\ GuardIdle /\ ExecIdle /\ HystIdle /\ InterpIdle
    /\ CalcIdle
InitHyst ==
    HystInit /\ FanIdle /\ GuardIdle /\ ExecIdle /\ DaemonIdle /\ InterpIdle
    /\ CalcIdle
SpecHyst == InitHyst /\ [][HystNext]_vars

InitInterp ==
    InterpInit /\ FanIdle /\ GuardIdle /\ ExecIdle /\ DaemonIdle /\ HystIdle
    /\ CalcIdle
SpecInterp == InitInterp /\ [][InterpNext]_vars

InitLim ==
    /\ LimInit /\ StratIdle /\ CurveIdle /\ VoltIdle
    /\ FanIdle /\ GuardIdle /\ ExecIdle /\ DaemonIdle /\ HystIdle /\ InterpIdle
SpecLim == InitLim /\ [][LimNext]_vars

InitStrat ==
    /\ StratInit /\ LimIdle /\ CurveIdle /\ VoltIdle
    /\ FanIdle /\ GuardIdle /\ ExecIdle /\ DaemonIdle /\ HystIdle /\ InterpIdle
SpecStrat == InitStrat /\ [][StratCalculate]_vars

InitCurve ==
    /\ CurveInit /\ LimIdle /\ StratIdle /\ VoltIdle
    /\ FanIdle /\ GuardIdle /\ ExecIdle /\ DaemonIdle /\ HystIdle /\ InterpIdle
SpecCurve == InitCurve /\ [][CurveNext]_vars

InitVolt ==
    /\ VoltInit /\ LimIdle /\ StratIdle /\ CurveIdle
    /\ FanIdle /\ GuardIdle /\ ExecIdle /\ DaemonIdle /\ HystIdle /\ InterpIdle
SpecVolt == InitVolt /\ [][VoltNext]_vars

InitScenario ==
    ScenarioInit /\ GuardIdle /\ ExecIdle /\ HystIdle /\ InterpIdle
    /\ CalcIdle
SpecScenario == InitScenario /\ [][ScenarioTick]_vars

SpecMain == InitMain /\ [][MainNext]_vars

\* the main loop is sequential code whose every stage returns: each stage
\* is taken once it is reached
SpecMainFair ==
    /\ SpecMain
    /\ WF_vars(MainTick) /\ WF_vars(MainFanUpdate)
    /\ WF_vars(MainForceStatus)
    /\ WF_vars(MainShutdownDisable) /\ WF_vars(MainShutdownReset)
    /\ WF_vars(MainShutdownExit)

\* the clock advances, and the watchdog task, which has a worker thread of
\* its own to run on, takes each of its steps once it can
SpecDaemonFair ==
    /\ SpecDaemon
    /\ WF_vars(ClockTick)
    /\ WF_vars(WatchdogWake) /\ WF_vars(WatchdogPoll)
    /\ WF_vars(WatchdogReset)
    /\ WF_vars(WatchdogSignal) /\ WF_vars(WatchdogExit)

(***************************************************************************)
(* Properties of the fan loop                                              *)
(***************************************************************************)
\* the last call was an update on an active controller that read raw
ActiveTick == upd.op = "update" /\ IsSome(upd.raw)
RawTemp == Unwrap(upd.raw)
Limits == fc.config.safety_limits

\* C1: in an active update whose raw temperature is at or above the
\* critical threshold, the value written to pwm1 is 255, and when the write
\* succeeds 255 is what the device holds and what update returns.
C1_CriticalForcesMaxPwm ==
    (ActiveTick /\ RawTemp >= Limits.critical_temp) =>
        /\ upd.write = Some(255)
        /\ upd.ret.ok => (upd.ret.val = 255 /\ dev.pwm1 = 255
                            /\ fc.last_pwm = 255)

\* a critical tick on the threshold itself, with the curve asking for less
\* than full speed, the smoother enabled and the average still below 90
C1_Witness ==
    /\ ActiveTick /\ RawTemp = Limits.critical_temp /\ upd.ret.ok
    /\ upd.target_pwm < 255
    /\ fc.config.pwm_smoothing_enabled
    /\ Unwrap(fc.last_stable_temp) < Limits.critical_temp
    /\ dev.pwm1 = 255

\* C2: after an active update whose raw temperature is in the high tier
\* (high_threshold <= T < critical_threshold) the value update returns as
\* applied is at least 204.
C2_HighTierFloor ==
    (ActiveTick /\ upd.ret.ok /\ RawTemp >= Limits.high_temp
        /\ RawTemp < Limits.critical_temp) => upd.ret.val >= 204

\* C3: in an active update with allow_zero_rpm false and the raw
\* temperature above zero_rpm_max_temp, the value written to pwm1 is not 0.
C3_NeverStoppedWhenWarm ==
    (ActiveTick /\ ~Limits.allow_zero_rpm
        /\ RawTemp > Limits.zero_rpm_max_temp
        /\ IsSome(upd.write) /\ upd.ret.ok) => dev.pwm1 # 0

(***************************************************************************)
(* Properties of the safety guard                                          *)
(***************************************************************************)
\* C4: apply_safety_override never returns less than the PWM it was given,
\* for every PWM in 0..255, every temperature and every limits.
C4_GuardNeverDecreases ==
    IsSome(guard.out) => Unwrap(guard.out) >= guard.calculated_pwm

\* the minimum tier passing a value above its floor through unchanged
C4_Witness ==
    /\ IsSome(guard.out)
    /\ check_safety_override(guard.temp_c, guard.limits).kind = "MinimumPwm"
    /\ guard.calculated_pwm > 204
    /\ Unwrap(guard.out) = guard.calculated_pwm

(***************************************************************************)
(* Properties of the executor                                              *)
(***************************************************************************)
\* number of failures at the end of a history of apply outcomes
RECURSIVE TrailingFailures(_)
TrailingFailures(h) ==
    IF h = <<>> \/ h[Len(h)] THEN 0
    ELSE 1 + TrailingFailures(SubSeq(h, 1, Len(h) - 1))

\* some prefix of h ends in n consecutive failures
HasRun(h, n) == \E k \in 1..Len(h) : TrailingFailures(SubSeq(h, 1, k)) >= n

Fatal(ret) == ret.kind # "Ok"

\* C5: with limit N >= 1, as long as no run of N consecutive failures was
\* completed before it, an apply call is fatal exactly when it completes
\* such a run: at the Nth consecutive failure and on no earlier call.
C5_FatalExactlyAtNth ==
    (exlog.op = "apply" /\ ex.max_failures >= 1
        /\ ~HasRun(SubSeq(exlog.history, 1, Len(exlog.history) - 1),
                   ex.max_failures))
    => (Fatal(exlog.ret)
            <=> TrailingFailures(exlog.history) = ex.max_failures)

\* the fatal call itself: the fifth failure in a row, after an earlier success
C5_Witness ==
    /\ exlog.op = "apply" /\ Fatal(exlog.ret)
    /\ ex.max_failures = MAX_CONSECUTIVE_FAILURES
    /\ exlog.ret.count = MAX_CONSECUTIVE_FAILURES
    /\ Len(exlog.history) > MAX_CONSECUTIVE_FAILURES

\* C6: while no apply has been fatal, the counter is the number of
\* failures since the most recent success, and it is 0 right after any
\* successful apply.
C6_CounterIsTrailingFailures ==
    /\ ~exlog.had_fatal =>
            ex.consecutive_failures = TrailingFailures(exlog.history)
    /\ (exlog.op = "apply" /\ exlog.outcome = "Ok") =>
            (ex.consecutive_failures = 0 /\ exlog.ret = ApplyOk(TRUE, 0))

\* failures, one success, then failures again: the count restarted
C6_Witness ==
    /\ ~exlog.had_fatal
    /\ Len(exlog.history) >= 5
    /\ exlog.history[1] = FALSE /\ exlog.history[2] = FALSE
    /\ exlog.history[3] = FALSE /\ exlog.history[4] = TRUE
    /\ exlog.history[5] = FALSE
    /\ ex.consecutive_failures = Len(exlog.history) - 4

\* C7: an apply whose spawn fails with binary-not-found is fatal on that
\* call and leaves the consecutive-failure counter as it was.
C7_BinaryNotFoundIsFatal ==
    [][(exlog'.calls # exlog.calls /\ exlog'.op = "apply"
            /\ exlog'.outcome = "BinaryNotFound")
        => (Fatal(exlog'.ret)
              /\ ex'.consecutive_failures = ex.consecutive_failures)]_vars

\* C8: reset_to_zero spawns the external command exactly once, leaves the
\* executor (its counter) unchanged whatever the outcome, and never returns
\* MaxFailuresReached.
C8_ResetNotCounted ==
    [][(exlog'.calls # exlog.calls /\ exlog'.op = "reset_to_zero")
        => (/\ exlog'.spawned = exlog.spawned + 1
            /\ ex' = ex
            /\ exlog'.ret.kind # "MaxFailuresReached")]_vars

\* a failed reset with the counter one short of the limit
C8_Witness ==
    /\ exlog.op = "reset_to_zero" /\ exlog.outcome = "NonZeroExit"
    /\ exlog.ret.kind = "NonZeroExit"
    /\ ex.max_failures >= 2
    /\ ex.consecutive_failures = ex.max_failures - 1

(***************************************************************************)
(* Properties of the supervisor and of the fatal paths                     *)
(***************************************************************************)
HasEvent(e) == \E i \in 1..Len(proc.events) : proc.events[i] = e

\* C9: once the watchdog is started and the control loop is wedged, the
\* watchdog eventually has attempted the reset, signalled the timeout and
\* ended the process with exit code 5.
C9_WedgedLoopLeadsToWatchdogExit ==
    (wd.started /\ loop.pc = "wedged")
        ~> (/\ proc.exit_code = Some(EXIT_WATCHDOG)
            /\ HasEvent(Event("reset", "watchdog", 0))
            /\ wd.timeout_tx)

\* the process ended by the watchdog while the loop was wedged
C9_Witness ==
    /\ loop.pc = "wedged"
    /\ proc.exit_code = Some(EXIT_WATCHDOG)
    /\ wd.timeout_tx
    /\ now - wd.last_heartbeat_ms > wd.timeout_secs * 1000

\* the path a fatal exit code belongs to
FatalPath(code) == CASE code = EXIT_WATCHDOG -> "watchdog"
                     [] code = EXIT_MAX_FAILURES -> "fatal"
                     [] code = EXIT_PANIC -> "panic"
                     [] OTHER -> "none"

\* C10: every exit with a fatal code (4, 5, 101) and every hand-over of a
\* panic to the default hook comes after a reset attempt made on that path.
C10_ResetBeforeFatalExit ==
    \A j \in 1..Len(proc.events) :
        LET e == proc.events[j] IN
        ((e.ev = "exit" /\ FatalPath(e.code) # "none") \/ e.ev = "propagate")
        => \E i \in 1..(j - 1) :
              proc.events[i] = Event("reset", e.by, 0)

\* a panic handed on after its reset, and then the watchdog ending the
\* process after its own
C10_Witness ==
    /\ HasEvent(Event("propagate", "panic", 0))
    /\ proc.exit_code = Some(EXIT_WATCHDOG)

(***************************************************************************)
(* Properties of the main loop: shutdown, fan release, read failures       *)
(***************************************************************************)
EventAt(e) == {i \in 1..Len(proc.events) : proc.events[i] = e}
ShutdownObserved == HasEvent(Event("observe", "shutdown", 0))

\* C11: once the loop has observed the shutdown flag no tick starts and no
\* fan update, actuation or status line follows; the forced-zero reset
\* comes after the observation and before the exit.
C11_NoTickAfterShutdownObserved ==
    /\ [][ShutdownObserved =>
            /\ loop'.tick_count = loop.tick_count
            /\ loop'.did \notin {"tick", "fan_update", "fan_skip", "status"}
            /\ upd' = upd \/ upd'.op = "disable"
            /\ fc'.last_pwm = fc.last_pwm /\ dev'.pwm1 = dev.pwm1
            /\ ex' = ex]_vars
    /\ [](\A j \in EventAt(Event("exit", "shutdown", 0)) :
            \E i \in EventAt(Event("reset", "shutdown", 0)) :
                /\ i < j
                /\ \E k \in EventAt(Event("observe", "shutdown", 0)) : k < i)

\* a shutdown completed after the fan had been driven by the loop
C11_Witness ==
    /\ proc.exit_code = Some(0)
    /\ ShutdownObserved
    /\ HasEvent(Event("reset", "shutdown", 0))
    /\ loop.has_fan /\ dev.pwm1 > 0

LoopPanicked == loop.pc \in {"panic_hook", "panic_default_hook", "panic_exit"}

\* C12: a shutdown request, once received, is never cleared; the next
\* shutdown check of the loop takes the shutdown path, and the process
\* then performs the forced reset and exits with code 0 (unless the loop
\* panics first).
C12_ShutdownRequestLeadsToExitZero ==
    /\ [][sig.shutdown_requested => sig'.shutdown_requested]_vars
    /\ [][(sig.shutdown_requested /\ loop.pc = "top" /\ loop'.pc # "top")
            => loop'.pc = "shutdown_fan"]_vars
    /\ (sig.shutdown_requested /\ ~LoopPanicked)
         ~> (\/ /\ proc.exit_code = Some(0)
                /\ HasEvent(Event("reset", "shutdown", 0))
                /\ sig.shutdown_requested
             \/ LoopPanicked)

\* the process gone with code 0 after a request that arrived in mid-tick,
\* with a status request left unanswered
C12_Witness ==
    /\ proc.exit_code = Some(0)
    /\ sig.shutdown_requested /\ sig.force_status
    /\ loop.tick_count # 1
    /\ proc.events[Len(proc.events) - 1] = Event("reset", "shutdown", 0)

\* C13: once manual fan control has been taken, the process never ends with
\* the fan still in manual mode: at exit pwm1_enable is 2 (BIOS control).
C13_FanReleasedOnEveryExit ==
    (proc.exit_code # None /\ loop.has_fan /\ dev.took_control)
        => dev.pwm1_enable = FAN_MODE_AUTO

\* the fan stage just ran update() on an active controller and the
\* temperature read failed
ReadFailedStep ==
    /\ loop.pc = "fan" /\ loop'.pc = "status"
    /\ loop.tick_count = 0 /\ loop.has_fan /\ fc.active
    /\ upd'.op = "update" /\ ~IsSome(upd'.raw)

\* C14: when the temperature read fails in an active fan tick, update
\* returns the error, writes nothing and leaves the temperature history,
\* the hysteresis baseline, the smoother and the last written PWM as they
\* were, and the loop goes on to the rest of the tick with the process
\* alive.
C14_ReadFailureSkipsTick ==
    [][ReadFailedStep =>
        /\ ~upd'.ret.ok
        /\ ~IsSome(upd'.write)
        /\ dev' = dev
        /\ fc'.temp_history = fc.temp_history
        /\ fc'.last_stable_temp = fc.last_stable_temp
        /\ fc'.pwm_smoother = fc.pwm_smoother
        /\ fc'.last_pwm = fc.last_pwm
        /\ fc' = fc
        /\ loop'.did = "fan_update"
        /\ proc'.exit_code = None /\ proc' = proc]_vars

\* a failed read on a controller that holds a history, a baseline, a
\* smoother in mid-ramp and a PWM written earlier
C14_Witness ==
    /\ loop.pc = "status" /\ loop.did = "fan_update"
    /\ upd.op = "update" /\ ~IsSome(upd.raw) /\ ~upd.ret.ok
    /\ fc.active
    /\ Len(fc.temp_history) > 0 /\ IsSome(fc.last_stable_temp)
    /\ fc.last_pwm > 0 /\ dev.pwm1 = fc.last_pwm
    /\ RoundPwm(fc.pwm_smoother.current_pwm) # fc.pwm_smoother.target_pwm
    /\ proc.exit_code = None

(***************************************************************************)
(* Properties of the hysteresis controller                                 *)
(***************************************************************************)
HystCore == hy.ctl.per_core_state[hy.call.core]
HystProcessed == hy.call.op = "process"

\* C15: a process call whose input is within the margin (bounds included)
\* of the input I0 that established the baseline returns the output stored
\* then, whatever the candidate, and moves neither baseline nor output: a
\* run of such calls of any length returns one constant.
C15_DeadBandHoldsOutput ==
    [][LET c == hy'.call.core
           e == hy.est[c]
           st == hy'.ctl.per_core_state[c]
       IN  (hy'.call.op = "process" /\ IsSome(e)
              /\ Abs(hy'.call.load - Unwrap(e).load) <= hy.ctl.margin_percent)
           => /\ hy'.call.ret = Unwrap(e).output
              /\ st.last_stable_load = Some(Unwrap(e).load)
              /\ st.last_stable_load = hy.ctl.per_core_state[c].last_stable_load
              /\ st.last_output = Unwrap(e).output
              /\ st.in_dead_band
              /\ hy'.est = hy.est]_vars

\* a call on the very edge of the band, with a candidate that differs
\* from the held output, after an earlier in-band call
C15_Witness ==
    /\ HystProcessed
    /\ IsSome(hy.est[hy.call.core])
    /\ Abs(hy.call.load - Unwrap(hy.est[hy.call.core]).load)
          = hy.ctl.margin_percent
    /\ hy.call.before.in_dead_band
    /\ hy.call.raw_target # hy.call.ret
    /\ hy.call.ret = HystCore.last_output

\* C16: a process call whose input is further than the margin from the
\* baseline returns the candidate, stores it as last_output and makes the
\* input the new baseline.
C16_OutsideDeadBandRecentres ==
    LET b == hy.call.before.last_stable_load IN
    (HystProcessed /\ IsSome(b)
        /\ Abs(hy.call.load - Unwrap(b)) > hy.ctl.margin_percent)
    => /\ hy.call.ret = hy.call.raw_target
       /\ HystCore.last_output = hy.call.raw_target
       /\ HystCore.last_stable_load = Some(hy.call.load)
       /\ ~HystCore.in_dead_band
       /\ hy.est[hy.call.core] = Some([load |-> hy.call.load,
                                       output |-> hy.call.raw_target])

\* a call one percent beyond the band that changes output and baseline
C16_Witness ==
    /\ HystProcessed
    /\ IsSome(hy.call.before.last_stable_load)
    /\ Abs(hy.call.load - Unwrap(hy.call.before.last_stable_load))
          = hy.ctl.margin_percent + 1
    /\ hy.call.before.in_dead_band
    /\ hy.call.before.last_output # hy.call.raw_target
    /\ HystCore.last_stable_load = Some(hy.call.load)

\* C17: on a core without baseline (new, or reset) process returns the
\* candidate, makes the input the baseline and stores the candidate as
\* last_output; reset_core leaves the core without baseline.
C17_FirstCallPassesThrough ==
    /\ (HystProcessed /\ ~IsSome(hy.call.before.last_stable_load))
        => /\ hy.call.ret = hy.call.raw_target
           /\ HystCore.last_stable_load = Some(hy.call.load)
           /\ HystCore.last_output = hy.call.raw_target
    /\ hy.call.op \in {"reset_core", "reset"}
        => ~IsSome(HystCore.last_stable_load)

\* a first call on a core that had been used and then reset, while the
\* other core keeps its baseline
C17_Witness ==
    /\ HystProcessed
    /\ ~IsSome(hy.call.before.last_stable_load)
    /\ hy.call.ret = hy.call.raw_target
    /\ HystCore.last_stable_load = Some(hy.call.load)
    /\ \E m \in HystCores \ {hy.call.core} :
          IsSome(hy.ctl.per_core_state[m].last_stable_load)

\* C18: a process or reset_core call on one core leaves baseline,
\* last_output and dead-band flag of every other core as they were.
C18_CoresIndependent ==
    [][hy'.call.op \in {"process", "reset_core"} =>
        \A m \in HystCores \ {hy'.call.core} :
            /\ hy'.ctl.per_core_state[m] = hy.ctl.per_core_state[m]
            /\ hy'.est[m] = hy.est[m]]_vars

\* a reset of one core while the other is held in its dead-band
C18_Witness ==
    /\ hy.call.op = "reset_core"
    /\ IsSome(hy.call.before.last_stable_load)
    /\ \E m \in HystCores \ {hy.call.core} :
          /\ hy.ctl.per_core_state[m].in_dead_band
          /\ hy.ctl.per_core_state[m].last_output # 0

(***************************************************************************)
(* Properties of the interpolator                                          *)
(***************************************************************************)
CeilDiv(a, b) == (a + b - 1) \div b

\* C19: a tick moves every core's current value exactly step_size towards
\* its target, lands it exactly on the target when the remaining distance
\* is at most step_size, and leaves a core that is at its target alone.
C19_TickMovesExactlyOneStep ==
    ip.op = "tick" =>
        \A c \in InterpCores :
            LET b == ip.before[c]
                a == ip.itp.states[c]
                dist == Abs(b.target - b.current)
                step == ip.itp.step_size_mv
            IN  /\ a.target = b.target
                /\ ip.ret[c] = a.current
                /\ dist = 0 => a.current = b.current
                /\ (0 < dist /\ dist <= step) => a.current = b.target
                /\ dist > step =>
                    /\ Abs(a.current - b.current) = step
                    /\ Abs(a.target - a.current) = dist - step

\* one tick in which one core takes a full step, the other lands on a
\* target nearer than a step
C19_Witness ==
    /\ ip.op = "tick"
    /\ \E c, d \in InterpCores :
        /\ Abs(ip.before[c].target - ip.before[c].current)
              > ip.itp.step_size_mv
        /\ ip.itp.step_size_mv > 1
        /\ Abs(ip.before[d].target - ip.before[d].current) \in
              1..(ip.itp.step_size_mv - 1)
        /\ ip.itp.states[d].current = ip.itp.states[d].target

\* C20: with the target held, every tick taken at a distance above zero
\* leaves the distance strictly smaller, and the distance is zero exactly
\* from the ceil(|target - start| / step)-th tick on.
C20_ConvergesInCeilTicks ==
    /\ [][ip'.op = "tick" =>
            \A c \in InterpCores :
                remaining_distance(ip.itp, c) > 0 =>
                    remaining_distance(ip'.itp, c)
                        < remaining_distance(ip.itp, c)]_vars
    /\ [](\A c \in InterpCores :
            LET total == Abs(ip.itp.states[c].target - ip.run[c].start) IN
            (remaining_distance(ip.itp, c) = 0)
                <=> (ip.run[c].n >= CeilDiv(total, ip.itp.step_size_mv)))

\* a core that has just arrived after two ticks, the second shorter than
\* a step
C20_Witness ==
    /\ ip.op = "tick"
    /\ \E c \in InterpCores :
        /\ Abs(ip.itp.states[c].target - ip.run[c].start)
              = ip.itp.step_size_mv + 1
        /\ ip.run[c].n = 2
        /\ ip.itp.step_size_mv > 1
        /\ remaining_distance(ip.itp, c) = 0
        /\ ip.before[c].current # ip.itp.states[c].current

(***************************************************************************)
(* Properties of the two rate limiters                                     *)
(***************************************************************************)
\* C21: force_immediate(value) on the Interpolator and on the PWMSmoother
\* sets current = target = value in that call, whatever transition was in
\* progress: the limiter is then not transitioning, and the tick or update
\* that follows returns value.
C21_ForceImmediateBypassesLimiter ==
    /\ lim.icall.op = "force_immediate" =>
        /\ \A c \in InterpCores :
            /\ lim.itp.states[c].current = Unwrap(lim.icall.forced)[c]
            /\ lim.itp.states[c].target = Unwrap(lim.icall.forced)[c]
        /\ ~is_transitioning(lim.itp)
    /\ (lim.icall.op = "tick" /\ IsSome(lim.icall.prev_forced)) =>
        lim.icall.ret = lim.icall.prev_forced
    /\ lim.pcall.op = "force_immediate" =>
        /\ lim.pwm.current_pwm = Unwrap(lim.pcall.forced) * UnitsPerPwm
        /\ lim.pwm.target_pwm = Unwrap(lim.pcall.forced)
        /\ at_target(lim.pwm)
    /\ (lim.pcall.op = "update" /\ IsSome(lim.pcall.prev_forced)) =>
        lim.pcall.ret = lim.pcall.prev_forced

\* each limiter was forced, out of a transition in progress, to a value
\* that was not where it stood, and has been ticked or updated since
C21_Witness ==
    /\ lim.pcall.op = "update"
    /\ lim.pcall.prev_forced = Some(100)
    /\ lim.pcall.prev_transitioning
    /\ lim.icall.op = "tick"
    /\ IsSome(lim.icall.prev_forced)
    /\ lim.icall.prev_transitioning
    /\ \E c \in InterpCores : Unwrap(lim.icall.prev_forced)[c] # 0

(***************************************************************************)
(* Properties of the status request                                        *)
(***************************************************************************)
\* the step of the loop that takes the force-status flag
TakeStep == loop.pc = "status" /\ loop'.pc = "top"

\* C22 as stated: every status request is answered by a status message
\* (a panic of the loop aside).
C22_EveryStatusRequestServed ==
    (proc.usr1_pending > 0) ~> (proc.usr1_pending = 0 \/ LoopPanicked)

\* C22: the force-status flag is set exactly while a request has come in
\* since the previous take; a take clears it in the same step and emits a
\* status message if and only if the flag was set, on whatever tick of the
\* fan cadence; and a request is answered by the next take unless the loop
\* sees a shutdown request first (or panics): the process then exits with
\* the request unanswered.
C22_StatusRequestServedOnce ==
    /\ [](sig.force_status <=> proc.usr1_pending > 0)
    /\ [][TakeStep =>
            /\ loop'.did = "status" <=> proc.usr1_pending > 0
            /\ ~sig'.force_status
            /\ proc'.usr1_pending = 0]_vars
    /\ [][proc'.usr1_pending < proc.usr1_pending => TakeStep]_vars
    /\ (proc.usr1_pending > 0)
         ~> (proc.usr1_pending = 0 \/ ShutdownObserved \/ LoopPanicked)

\* a status message just emitted for two requests at once, on a tick that
\* is not a fan-update tick, and a new request already in
C22_Witness ==
    /\ loop.did = "status"
    /\ loop.tick_count # 0
    /\ proc.usr1_pending = 1
    /\ sig.force_status
    /\ ~sig.shutdown_requested

(***************************************************************************)
(* Properties of the adaptation strategies                                 *)
(***************************************************************************)
\* C23: for every strategy, Custom with any curve values included, every
\* load and all bounds with max_mv <= min_mv, calculate_target returns a
\* value within [max_mv, min_mv].
C23_TargetWithinBounds ==
    (strat.done /\ strat.bounds.max_mv <= strat.bounds.min_mv) =>
        /\ strat.bounds.max_mv <= strat.target1
        /\ strat.target1 <= strat.bounds.min_mv
        /\ strat.bounds.max_mv <= strat.target2
        /\ strat.target2 <= strat.bounds.min_mv

\* a custom curve whose value at one load lies above the bounds and at the
\* other below them, both clamped
C23_Witness ==
    /\ strat.done
    /\ strat.strategy.kind = "custom"
    /\ CustomStrategy_interpolate(strat.strategy.curve, strat.load1)
          > strat.bounds.min_mv
    /\ CustomStrategy_interpolate(strat.strategy.curve, strat.load2)
          < strat.bounds.max_mv
    /\ strat.target1 = strat.bounds.min_mv
    /\ strat.target2 = strat.bounds.max_mv

\* C24: for every strategy, Custom included, and two loads L1 < L2 under
\* the same bounds, calculate_target(L1) <= calculate_target(L2).
C24_TargetMonotoneInLoad ==
    (strat.done /\ strat.load1 < strat.load2) =>
        strat.target1 <= strat.target2

(***************************************************************************)
(* Properties of the decision curves                                       *)
(***************************************************************************)
\* the points of the constructed curve as pairs <<input, output>>
CurvePairs ==
    LET c == crv.built.val IN
    {CASE crv.kind = "fan" -> <<c[i].temp_c, c[i].speed_percent>>
       [] crv.kind = "frequency" -> <<c[i].frequency_mhz, c[i].voltage_mv>>
       [] crv.kind = "custom" -> <<c[i].load, c[i].mv>> : i \in 1..Len(c)}
CurveLowest == CHOOSE a \in {p[1] : p \in CurvePairs} :
                  \A b \in {p[1] : p \in CurvePairs} : a <= b
CurveHighest == CHOOSE a \in {p[1] : p \in CurvePairs} :
                  \A b \in {p[1] : p \in CurvePairs} : a >= b

\* C25: for every curve that was constructed and every point in it, the
\* curve evaluated at the point's input gives exactly the point's output.
C25_CurveExactAtPoints ==
    crv.stage = "evaluated" =>
        \A p \in CurvePairs : p[1] = crv.x => crv.out = Ok(p[2])

\* C26: every input below the lowest point of a curve gets the output of
\* the lowest point, every input above the highest point that of the
\* highest, and a curve of one point gives its one output everywhere.
C26_CurveClampsOutsideRange ==
    crv.stage = "evaluated" =>
        /\ crv.x < CurveLowest =>
            \E p \in CurvePairs : p[1] = CurveLowest /\ crv.out = Ok(p[2])
        /\ crv.x > CurveHighest =>
            \E p \in CurvePairs : p[1] = CurveHighest /\ crv.out = Ok(p[2])
        /\ Len(crv.built.val) = 1 => crv.out = Ok(crv.built.val[1][
              IF crv.kind = "frequency" THEN "voltage_mv" ELSE "mv"])

\* a fan curve of three points asked well below its lowest point
C26_Witness ==
    /\ crv.stage = "evaluated"
    /\ crv.kind = "fan"
    /\ Len(crv.built.val) = 3
    /\ CurveLowest = 60
    /\ crv.x = 30
    /\ crv.out = Ok(crv.built.val[1].speed_percent)
    /\ crv.built.val[1].speed_percent # crv.built.val[3].speed_percent

\* the least number of points and the range of outputs of each kind
CurveMinPoints == [fan |-> 2, frequency |-> 1, custom |-> 1]
CurveOutputRange == [fan |-> 0..100, frequency |-> -100..0, custom |-> -100..0]

\* C27: constructing a curve fails when fewer than the least number of
\* points is given or when an output lies outside the safety range, and
\* no constructed curve has too few points or an output out of range.
C27_InvalidCurveRejected ==
    crv.stage # "given" =>
        /\ (\/ Len(crv.given) < CurveMinPoints[crv.kind]
            \/ \E i \in 1..Len(crv.given) :
                 crv.given[i][2] \notin CurveOutputRange[crv.kind])
              => ~crv.built.ok
        /\ crv.built.ok =>
            /\ Len(crv.built.val) >= CurveMinPoints[crv.kind]
            /\ \A p \in CurvePairs : p[2] \in CurveOutputRange[crv.kind]

(***************************************************************************)
(* Properties of the end-to-end fan scenario                               *)
(***************************************************************************)
\* C28: with the curve {40 C -> 20 %, 80 C -> 100 %}, a steady 60 C and
\* the smoother starting at 0, every update made once a ramp time of ticks
\* has elapsed reports an applied PWM within one unit of 255 * 60 / 100.
C28_ScenarioConverges ==
    (upd.op = "update" /\ now >= RampTimeMs(fc)) =>
        /\ upd.ret.ok
        /\ Abs(upd.ret.val - (255 * 60) \div 100) <= 1

(***************************************************************************)
(* Properties of the stages of a fan tick                                  *)
(***************************************************************************)
\* C29: in a fan tick the safety guard comes after the rate limiter and
\* nothing comes after the guard but the write: the value handed to the
\* actuator is the guard's own result for the tick's raw temperature, so
\* applying the guard to it again changes nothing, and it is the value
\* written.
C29_GuardIsLastStage ==
    ActiveTick =>
        /\ upd.final_pwm = apply_safety_override(upd.final_pwm, RawTemp, Limits)
        /\ IsSome(upd.write) => Unwrap(upd.write) = upd.final_pwm

\* the moving average of the samples the controller holds
SmoothedTemp == TruncDiv(SeqSum(fc.temp_history), Len(fc.temp_history))

\* C30: in every active fan tick the safety tier is the tier of the raw
\* temperature read in that tick: the guarded value is the guard applied
\* to the curve's value at the raw temperature, whatever the moving
\* average and the held temperature are, and a raw reading at or above
\* the critical threshold forces 255 past the smoother.
C30_TierFromRawTemperature ==
    ActiveTick =>
        /\ upd.safe_pwm = apply_safety_override(upd.target_pwm, RawTemp, Limits)
        /\ RawTemp >= Limits.critical_temp =>
            /\ upd.final_pwm = 255
            /\ fc.pwm_smoother.current_pwm = 255 * UnitsPerPwm
        /\ (RawTemp >= Limits.high_temp /\ RawTemp < Limits.critical_temp) =>
            upd.safe_pwm >= 204
        /\ RawTemp < Limits.high_temp =>
            upd.safe_pwm \in {upd.target_pwm, 30}

\* one critical reading after a cool one: the average and the held
\* temperature are below the high threshold, yet 255 is written
C30_Witness ==
    /\ ActiveTick
    /\ RawTemp >= Limits.critical_temp
    /\ Len(fc.temp_history) = 2
    /\ SmoothedTemp < Limits.high_temp
    /\ Unwrap(fc.last_stable_temp) < Limits.high_temp
    /\ upd.target_pwm < 204
    /\ upd.write = Some(255)

(***************************************************************************)
(* Properties of the zero-RPM floor (SpecGuard)                            *)
(***************************************************************************)
GuardDone == IsSome(guard.out)
NoOverrideTier == check_safety_override(guard.temp_c, guard.limits).kind = "None"
ZeroRpmFloor == 30

\* C31 (as stated): in the no-override tier a computed PWM of 0 is replaced
\* by the floor exactly when allow_zero_rpm is false AND the reading exceeds
\* zero_rpm_max_temp; every other value is returned unchanged.
C31_FloorWhenDisallowedAndWarm ==
    (GuardDone /\ NoOverrideTier) =>
        Unwrap(guard.out) =
            IF /\ guard.calculated_pwm = 0
               /\ ~guard.limits.allow_zero_rpm
               /\ guard.temp_c > guard.limits.zero_rpm_max_temp
            THEN ZeroRpmFloor
            ELSE guard.calculated_pwm

\* C31 (amended): in the no-override tier a computed PWM of 0 is replaced by
\* the floor exactly when allow_zero_rpm is false OR the reading exceeds
\* zero_rpm_max_temp; every other value is returned unchanged.
C31_FloorWhenDisallowedOrWarm ==
    (GuardDone /\ NoOverrideTier) =>
        Unwrap(guard.out) =
            IF /\ guard.calculated_pwm = 0
               /\ \/ ~guard.limits.allow_zero_rpm
                  \/ guard.temp_c > guard.limits.zero_rpm_max_temp
            THEN ZeroRpmFloor
            ELSE guard.calculated_pwm

\* a zero PWM at 46 C with zero RPM allowed up to 45 C is raised to the floor
C31_Witness ==
    /\ GuardDone /\ NoOverrideTier
    /\ guard.calculated_pwm = 0
    /\ guard.limits.allow_zero_rpm
    /\ guard.temp_c = guard.limits.zero_rpm_max_temp + 1
    /\ guard.out = Some(ZeroRpmFloor)

(***************************************************************************)
(* Terminality of the failure limit (SpecExec)                             *)
(***************************************************************************)
\* C32: once an apply call has returned the fatal result, every later call
\* on the executor returns a fatal result and the counter stays at or above
\* the maximum.
C32_FatalIsTerminal ==
    exlog.had_fatal =>
        /\ Fatal(exlog.ret)
        /\ ex.consecutive_failures >= ex.max_failures

(***************************************************************************)
(* Heartbeat of the control loop (SpecMain)                                *)
(***************************************************************************)
\* the step that ends an iteration of main's loop: the status stage and the
\* sleep after it
TickEnds == loop.pc = "status" /\ loop'.pc = "top"

\* C33: every iteration of the control loop records one watchdog heartbeat
\* as its last step: the step that ends the tick stores the current time as
\* the last heartbeat.
C33_HeartbeatEndsEveryTick ==
    [][TickEnds => (wd' # <<>> /\ wd' # wd /\ wd'.last_heartbeat_ms = now')]_vars

(***************************************************************************)
(* Properties of the watchdog's timeout test (SpecDaemon)                  *)
(***************************************************************************)
\* the step of the watchdog task that ends the test of is_timed_out
PollStep == wd.pc = "test" /\ wd'.pc # "test"

\* measured from the clock value the poll has read
SinceHeartbeat == wd.current_ms - wd.last_heartbeat_ms
TimeoutMs == wd.timeout_secs * 1000

\* C34: a poll of the watchdog reports a timeout if and only if the time
\* since the last heartbeat is strictly greater than the timeout; an elapsed
\* time equal to the timeout is not a timeout. check_timeout agrees.
C34_TimeoutIffStrictlyGreater ==
    [][PollStep =>
        /\ wd'.pc = "reset" <=> SinceHeartbeat > TimeoutMs
        /\ wd'.pc = "reset" <=>
              check_timeout(wd.last_heartbeat_ms, wd.current_ms, TimeoutMs)]_vars

\* a poll has just found the elapsed time equal to the timeout and gone
\* back to sleep
C34_Witness ==
    /\ wd # <<>> /\ wd.started /\ wd.pc = "sleep"
    /\ wd.wake_at = now + CHECK_INTERVAL_MS
    /\ SinceHeartbeat = TimeoutMs

(***************************************************************************)
(* The dead-band of the fan loop's hysteresis (Spec)                       *)
(***************************************************************************)
\* a step that is an active update with a baseline already established
FanTickWithBaseline ==
    /\ ticks' = ticks + 1
    /\ upd'.op = "update" /\ IsSome(upd'.raw)
    /\ IsSome(fc.last_stable_temp)

\* C35: in the fan loop's hysteresis a temperature whose distance from the
\* baseline is at most the margin, the margin itself included, stays in
\* the dead-band: the baseline is not moved and the curve is evaluated at
\* the baseline.
C35_FanDeadBandInclusive ==
    [][(FanTickWithBaseline
            /\ Abs(SmoothedTemp' - Unwrap(fc.last_stable_temp))
                  <= fc.config.hysteresis_temp)
        => /\ fc'.last_stable_temp = fc.last_stable_temp
           /\ upd'.target_pwm =
                speed_to_pwm(calculate_speed(fc.curve,
                                             Unwrap(fc.last_stable_temp)))]_vars

(***************************************************************************)
(* Interpolation arithmetic of the fan and frequency curves (SpecCurve)    *)
(***************************************************************************)
\* input and output of the i-th point of the curve that was built
PointIn(i) ==
    IF crv.kind = "fan" THEN crv.built.val[i].temp_c
    ELSE crv.built.val[i].frequency_mhz
PointOut(i) ==
    IF crv.kind = "fan" THEN crv.built.val[i].speed_percent
    ELSE crv.built.val[i].voltage_mv

\* the curve was evaluated at an input strictly between points i and i + 1
EvaluatedInside(i) ==
    /\ crv # <<>> /\ crv.kind \in {"fan", "frequency"}
    /\ crv.stage = "evaluated"
    /\ i \in 1..(Len(crv.built.val) - 1)
    /\ PointIn(i) < crv.x /\ crv.x < PointIn(i + 1)

\* C36: for an input strictly between two adjacent points the output is the
\* exact linear interpolation rounded half away from zero.
C36_InterpolationRoundsHalfAway ==
    \A i \in 1..MaxCurvePoints :
        EvaluatedInside(i) =>
            crv.out = Ok(PointOut(i)
                         + RoundDiv((PointOut(i + 1) - PointOut(i))
                                        * (crv.x - PointIn(i)),
                                    PointIn(i + 1) - PointIn(i)))

\* the curve was evaluated at an input that lies between points i and i + 1,
\* their own inputs included
EvaluatedBetween(i) ==
    /\ crv # <<>> /\ crv.kind \in {"fan", "frequency"}
    /\ crv.stage = "evaluated"
    /\ i \in 1..(Len(crv.built.val) - 1)
    /\ PointIn(i) <= crv.x /\ crv.x <= PointIn(i + 1)

OutputWithin(i) ==
    /\ crv.out.ok
    /\ crv.out.val >= Min(PointOut(i), PointOut(i + 1))
    /\ crv.out.val <= Max(PointOut(i), PointOut(i + 1))

\* points i and i + 1 are the bracketing pair of the evaluation: the input
\* is inside the curve's range and this is the first adjacent pair it lies
\* between
Bracketing(i) ==
    /\ EvaluatedBetween(i)
    /\ PointIn(1) < crv.x /\ crv.x < PointIn(Len(crv.built.val))
    /\ \A j \in 1..(i - 1) : ~EvaluatedBetween(j)

SuccessfulActiveTick == ActiveTick /\ upd.ret.ok

\* C38: after every successful active update the returned value is
\* last_pwm, it is the PWM most recently written to the device since
\* control was enabled, it differs from the tick's final PWM by less than
\* min_pwm_change (or not at all), and a final PWM of 0 or 255 is written.
C38_ReturnsLastWrittenPwm ==
    SuccessfulActiveTick =>
        /\ upd.ret.val = fc.last_pwm
        /\ dev.written = Some(upd.ret.val)
        /\ \/ upd.ret.val = upd.final_pwm
           \/ Abs(upd.ret.val - upd.final_pwm) < fc.config.min_pwm_change
        /\ upd.final_pwm \in {0, 255} =>
              /\ upd.write = Some(upd.final_pwm)
              /\ dev.pwm1 = upd.final_pwm

(***************************************************************************)
(* No false alarm of the watchdog (SpecDaemon)                             *)
(***************************************************************************)
\* the last moment, up to the poll's reading of the clock, at which a
\* timeout period began: the start of the watchdog or a later heartbeat
PeriodBegan == Max(wd.started_at, wd.last_heartbeat_ms)

\* C39: the watchdog goes to its reset and exit branch only when, at the
\* moment the poll read the clock, more than the timeout had passed since
\* the watchdog was started and since the last heartbeat; a loop that
\* records a heartbeat at least once in every timeout period is never
\* reset, whatever the interleaving and also at the first poll.
C39_NoResetWhileHeartbeating ==
    [][(PollStep /\ wd.current_ms - PeriodBegan <= TimeoutMs)
            => wd'.pc = "sleep"]_vars

\* the watchdog was started after the state was created, a poll read the
\* clock exactly one timeout after the start's heartbeat, a later
\* heartbeat came in before the test, and the task went back to sleep
C39_Witness ==
    /\ wd # <<>> /\ wd.started /\ wd.pc = "sleep"
    /\ wd.started_at > 0
    /\ wd.current_ms = wd.started_at + TimeoutMs
    /\ wd.last_heartbeat_ms > wd.current_ms
    /\ wd.wake_at = now + CHECK_INTERVAL_MS
    /\ Alive

(***************************************************************************)
(* C40: VoltageController::stop is all-or-nothing: either it succeeds and  *)
(* leaves the controller inactive with every core's recorded voltage at 0, *)
(* or it fails and leaves the active flag and every core's recorded        *)
(* voltage exactly as they were before the call.                           *)
(***************************************************************************)
StopReturned == volt # <<>> /\ volt.call.op = "stop"

C40_StopAllOrNothing ==
    StopReturned =>
        IF volt.call.ret.ok
        THEN /\ ~volt.vc.active
             /\ \A c \in VoltCores : volt.vc.cores[c].current_voltage = 0
        ELSE /\ volt.vc.active = volt.call.before.active
             /\ \A c \in VoltCores :
                    volt.vc.cores[c].current_voltage =
                        volt.call.before.cores[c].current_voltage

====
